---- MODULE Spec2Model ----
(***************************************************************************)
(* Model of the validate-rules tool of fastify-skills:                     *)
(*   parseRuleFile  (parser.ts)   text of one rule file -> Rule            *)
(*   validateRule   (validate.ts) Rule -> ValidationError[]                *)
(*   validate       (validate.ts) the run over the configured skills       *)
(*                                                                         *)
(* Strings are TLA+ strings, i.e. sequences of characters; the JavaScript  *)
(* string methods and regular expressions the code uses are operators on   *)
(* them.  Positions returned by IndexOf are 0-based as in JavaScript.      *)
(* A TLA+ string cannot hold a backquote, so the model writes the          *)
(* character "^" wherever a rule file has a backquote; the fence marker    *)
(* of three backquotes is therefore "^^^".                                 *)
(***************************************************************************)
EXTENDS Integers, Sequences, FiniteSets, TLC

VARIABLES
    content,        \* ParseSpec: the text of the rule file given to parseRuleFile
    phase,          \* ParseSpec: "read" | "parsed" | "validated"
    locals,         \* ParseSpec: parseRuleFile's content, frontmatter and ruleLines
    rule,           \* ParseSpec: the Rule returned by parseRuleFile
    errors,         \* ParseSpec: the ValidationError[] returned by validateRule
    pc,             \* Spec: position of validate(): "list" | "files" | "report" | "done"
    skillIdx,       \* Spec: index in SKILLS of the skill being validated
    files,          \* Spec: the directory listing of the current skill
    ruleFiles,      \* Spec: the filtered listing of the current skill
    fileIdx,        \* Spec: index in ruleFiles of the next file
    totalFiles,     \* Spec: validate's totalFiles
    allErrors,      \* Spec: validate's allErrors
    exitCode,       \* Spec: process exit status, -1 while running
    stdout,         \* Spec: lines written by console.log
    stderr,         \* Spec: lines written by console.error
    reads           \* Spec: paths handed to parseRuleFile, in call order

parseVars == <<content, phase, locals, rule, errors>>
runVars == <<pc, skillIdx, files, ruleFiles, fileIdx, totalFiles, allErrors, exitCode,
             stdout, stderr, reads>>
vars == <<content, phase, locals, rule, errors, pc, skillIdx, files, ruleFiles, fileIdx,
          totalFiles, allErrors, exitCode, stdout, stderr, reads>>

(***************************************************************************)
(* JavaScript string primitives                                            *)
(***************************************************************************)
Min(S) == CHOOSE x \in S : \A y \in S : x <= y
Max(S) == CHOOSE x \in S : \A y \in S : x >= y

CharAt(s, i) == SubSeq(s, i, i)

\* String.prototype.slice(from) with a 0-based start
SliceFrom(s, from) == SubSeq(s, from + 1, Len(s))

\* String.prototype.slice(from, to), 0-based, end exclusive
Slice(s, from, to) == SubSeq(s, from + 1, to)

StartsWith(s, p) == Len(s) >= Len(p) /\ SubSeq(s, 1, Len(p)) = p

EndsWith(s, p) == Len(s) >= Len(p) /\ SubSeq(s, Len(s) - Len(p) + 1, Len(s)) = p

\* String.prototype.indexOf(p, from): 0-based index of the first occurrence, or -1
IndexOf(s, p, from) ==
    LET hits == {i \in from..(Len(s) - Len(p)) : SubSeq(s, i + 1, i + Len(p)) = p}
    IN  IF hits = {} THEN -1 ELSE Min(hits)

\* String.prototype.includes(p)
Includes(s, p) ==
    LET n == Len(p) IN \E i \in 1..(Len(s) - n + 1) : SubSeq(s, i, i + n - 1) = p

\* the characters matched by \s and removed by trim()
WhiteSpace == {" ", "\t", "\n", "\r", "\f"}

IsSpace(c) == c \in WhiteSpace

LowerLetters == "abcdefghijklmnopqrstuvwxyz"
UpperLetters == "ABCDEFGHIJKLMNOPQRSTUVWXYZ"
Digits == "0123456789"

PosIn(alphabet, c) ==
    LET hits == {i \in 1..Len(alphabet) : CharAt(alphabet, i) = c}
    IN  IF hits = {} THEN 0 ELSE Min(hits)

LowerSet == {CharAt(LowerLetters, i) : i \in 1..Len(LowerLetters)}
UpperSet == {CharAt(UpperLetters, i) : i \in 1..Len(UpperLetters)}
DigitSet == {CharAt(Digits, i) : i \in 1..Len(Digits)}

IsLetter(c) == c \in LowerSet \/ c \in UpperSet

\* the characters matched by \w
IsWordChar(c) == IsLetter(c) \/ c \in DigitSet \/ c = "_"

\* the upper-case and the lower-case form of each letter
UpperOf == [c \in LowerSet |-> CharAt(UpperLetters, PosIn(LowerLetters, c))]
LowerOf == [c \in UpperSet |-> CharAt(LowerLetters, PosIn(UpperLetters, c))]

UpperChar(c) == IF c \in LowerSet THEN UpperOf[c] ELSE c

LowerChar(c) == IF c \in UpperSet THEN LowerOf[c] ELSE c

RECURSIVE ToUpperCase(_)
ToUpperCase(s) ==
    IF s = "" THEN "" ELSE UpperChar(CharAt(s, 1)) \o ToUpperCase(SubSeq(s, 2, Len(s)))

RECURSIVE ToLowerCase(_)
ToLowerCase(s) ==
    IF s = "" THEN "" ELSE LowerChar(CharAt(s, 1)) \o ToLowerCase(SubSeq(s, 2, Len(s)))

\* the elements of a finite set of integers in increasing order
RECURSIVE Sorted(_)
Sorted(P) == IF P = {} THEN <<>> ELSE <<Min(P)>> \o Sorted(P \ {Min(P)})

\* String.prototype.split(sep) for a one-character separator
Split(s, sep) ==
    LET cuts == <<0>> \o Sorted({i \in 1..Len(s) : CharAt(s, i) = sep}) \o <<Len(s) + 1>>
    IN  [k \in 1..(Len(cuts) - 1) |-> SubSeq(s, cuts[k] + 1, cuts[k + 1] - 1)]

\* Array.prototype.join(sep)
RECURSIVE Join(_, _)
Join(parts, sep) ==
    IF Len(parts) = 0 THEN ""
    ELSE IF Len(parts) = 1 THEN parts[1]
    ELSE parts[1] \o sep \o Join(Tail(parts), sep)

\* rawContent.replace(/\r\n/g, "\n")
RECURSIVE NormalizeNewlines(_)
NormalizeNewlines(s) ==
    LET i == IndexOf(s, "\r\n", 0)
    IN  IF i = -1 THEN s
        ELSE SubSeq(s, 1, i) \o "\n" \o NormalizeNewlines(SubSeq(s, i + 3, Len(s)))

\* the character classes of the regular expressions
InClass(cls, c) ==
    CASE cls = "\\s" -> IsSpace(c)
      [] cls = "\\w" -> IsWordChar(c)
      [] cls = "#" -> c = "#"
      [] cls = "[^)]" -> c # ")"
      [] cls = "[^\\]]" -> c # "]"
      [] cls = "[A-Za-z\\s]" -> IsLetter(c) \/ IsSpace(c)

\* the first 1-based position at or after p whose character is not in class cls
\* (Len(s) + 1 when the run reaches the end): where a greedy [class]* stops
RECURSIVE RunEnd(_, _, _)
RunEnd(s, p, cls) ==
    IF p > Len(s) THEN Len(s) + 1
    ELSE IF ~InClass(cls, CharAt(s, p)) THEN p
    ELSE RunEnd(s, p + 1, cls)

\* the last 1-based position at or before p whose character is not in class cls (0 if none)
RECURSIVE RunStart(_, _, _)
RunStart(s, p, cls) ==
    IF p < 1 THEN 0
    ELSE IF ~InClass(cls, CharAt(s, p)) THEN p
    ELSE RunStart(s, p - 1, cls)

\* String.prototype.trim()
Trim(s) == SubSeq(s, RunEnd(s, 1, "\\s"), RunStart(s, Len(s), "\\s"))

(***************************************************************************)
(* parseRuleFile: frontmatter                                              *)
(***************************************************************************)
\* an optional value (undefined in the code) is a sequence of length 0 or 1
Undefined == <<>>
Some(v) == <<v>>
IsDefined(o) == Len(o) = 1
ValueOf(o) == o[1]

IsQuote(c) == c = "\"" \/ c = "'"

\* value.replace(/^["']|["']$/g, "")
StripQuotes(value) ==
    LET a == IF Len(value) > 0 /\ IsQuote(CharAt(value, 1))
             THEN SubSeq(value, 2, Len(value)) ELSE value
    IN  IF Len(a) > 0 /\ IsQuote(CharAt(a, Len(a))) THEN SubSeq(a, 1, Len(a) - 1) ELSE a

\* FrontmatterLine taking the value up to the second colon only
FrontmatterLine_FirstPart(line) ==
    LET parts == Split(line, ":")
        key == parts[1]
        valueParts == Tail(parts)
    IN  IF key # "" /\ Len(valueParts) > 0
        THEN <<[key |-> Trim(key), value |-> StripQuotes(Trim(valueParts[1]))]>>
        ELSE <<>>

\* the forEach callback of the frontmatter lines: the assignments one line makes
FrontmatterLine(line) ==
    LET parts == Split(line, ":")
        key == parts[1]
        valueParts == Tail(parts)
    IN  IF key # "" /\ Len(valueParts) > 0
        THEN <<[key |-> Trim(key), value |-> StripQuotes(Trim(Join(valueParts, ":")))]>>
        ELSE <<>>

RECURSIVE FrontmatterLines(_)
FrontmatterLines(lines) ==
    IF Len(lines) = 0 THEN <<>>
    ELSE FrontmatterLine(lines[1]) \o FrontmatterLines(Tail(lines))

\* index of the closing delimiter, -1 when the text has no frontmatter block
FrontmatterEnd(text) ==
    IF StartsWith(text, "---") THEN IndexOf(text, "---", 3) ELSE -1

\* the frontmatter record, kept as the sequence of its assignments
Frontmatter(text) ==
    IF FrontmatterEnd(text) # -1
    THEN FrontmatterLines(Split(Trim(Slice(text, 3, FrontmatterEnd(text))), "\n"))
    ELSE <<>>

\* ContentStart at the closing delimiter instead of behind it
ContentStart_AtDelimiter(text) ==
    IF FrontmatterEnd(text) # -1 THEN FrontmatterEnd(text) ELSE 0

ContentStart(text) ==
    IF FrontmatterEnd(text) # -1 THEN FrontmatterEnd(text) + 3 ELSE 0

\* frontmatter[key]: the last assignment to key wins
FmGet(fm, key) ==
    LET hits == {i \in 1..Len(fm) : fm[i].key = key}
    IN  IF hits = {} THEN Undefined ELSE Some(fm[Max(hits)].value)

\* JavaScript truthiness of an optional string
Truthy(o) == IsDefined(o) /\ ValueOf(o) # ""

\* o || fallback
OrElse(o, fallback) == IF Truthy(o) THEN ValueOf(o) ELSE fallback

(***************************************************************************)
(* parseRuleFile: title                                                    *)
(***************************************************************************)
IsTitleHeading(line) == StartsWith(line, "##") /\ ~StartsWith(line, "###")

\* TitleLine giving the index before the first line when the body has no
\* second-level heading
TitleLine_BeforeFirst(ruleLines) ==
    LET hits == {i \in 1..Len(ruleLines) : IsTitleHeading(ruleLines[i])}
    IN  IF hits = {} THEN -1 ELSE Min(hits) - 1

\* 0-based index of the title line; 0 when the body has no second-level heading
TitleLine(ruleLines) ==
    LET hits == {i \in 1..Len(ruleLines) : IsTitleHeading(ruleLines[i])}
    IN  IF hits = {} THEN 0 ELSE Min(hits) - 1

\* line.replace(/^##+\s*/, "")
StripHeadingMarkers(line) ==
    IF StartsWith(line, "##")
    THEN SubSeq(line, RunEnd(line, RunEnd(line, 1, "#"), "\\s"), Len(line))
    ELSE line

\* BodyTitle without the break: the last second-level heading wins
BodyTitle_Last(ruleLines) ==
    LET hits == {i \in 1..Len(ruleLines) : IsTitleHeading(ruleLines[i])}
    IN  IF hits = {} THEN "" ELSE Trim(StripHeadingMarkers(ruleLines[Max(hits)]))

BodyTitle(ruleLines) ==
    LET hits == {i \in 1..Len(ruleLines) : IsTitleHeading(ruleLines[i])}
    IN  IF hits = {} THEN "" ELSE Trim(StripHeadingMarkers(ruleLines[Min(hits)]))

(***************************************************************************)
(* parseRuleFile: the regular expressions of the line loop                 *)
(***************************************************************************)
FENCE == "^^^"


\* the 1-based positions where /\*\*Impact:\s*(\w+ ... /i can start a match
ImpactStarts(line) ==
    {p \in 1..(Len(line) - 8) :
        /\ SubSeq(line, p, p + 1) = "**"
        /\ ToLowerCase(SubSeq(line, p + 2, p + 8)) = "impact:"
        /\ LET w == RunEnd(line, p + 9, "\\s")
           IN  w <= Len(line) /\ IsWordChar(CharAt(line, w))}

\* line.match(/\*\*Impact:\s*(\w+(?:-\w+)?)\s*(?:\(([^)]+)\))?/i):
\* Undefined, or the groups [level, description] of the leftmost match
ImpactMatch(line) ==
    LET starts == ImpactStarts(line)
    IN
    IF starts = {} THEN Undefined
    ELSE LET p == Min(starts)
             w == RunEnd(line, p + 9, "\\s")
             e1 == RunEnd(line, w, "\\w")
             e2 == IF /\ e1 + 1 <= Len(line)
                      /\ CharAt(line, e1) = "-"
                      /\ IsWordChar(CharAt(line, e1 + 1))
                   THEN RunEnd(line, e1 + 1, "\\w") ELSE e1
             q == RunEnd(line, e2, "\\s")
             c == RunEnd(line, q + 1, "[^)]")
             hasDesc == /\ q <= Len(line)
                        /\ CharAt(line, q) = "("
                        /\ c <= Len(line)
                        /\ c > q + 1
         IN  Some([level |-> SubSeq(line, w, e2 - 1),
                   description |-> IF hasDesc THEN Some(SubSeq(line, q + 1, c - 1))
                                   ELSE Undefined])

\* line.match(/^\*\*([^:]+?):\*?\*?$/): Undefined, or the text of group 1
LabelMatch(line) ==
    LET colon == IndexOf(line, ":", 0)
        rest == SliceFrom(line, colon + 1)
    IN  IF /\ StartsWith(line, "**")
           /\ colon >= 3
           /\ rest \in {"", "*", "**"}
        THEN Some(Slice(line, 2, colon))
        ELSE Undefined

\* DescMatch splitting on the parenthetical whatever stands before it
DescMatch_AnyHead(fullLabel) ==
    LET open == IndexOf(fullLabel, "(", 0)
        head == Slice(fullLabel, 0, open)
        inner == Slice(fullLabel, open + 1, Len(fullLabel) - 1)
    IN  IF /\ open >= 1
           /\ EndsWith(fullLabel, ")")
           /\ Len(inner) >= 1
           /\ ~Includes(inner, "(")
           /\ ~Includes(inner, ")")
        THEN Some([label |-> Trim(head), description |-> inner])
        ELSE Undefined

\* fullLabel.match(/^([A-Za-z]+(?:\s+[A-Za-z]+)*)\s*\(([^()]+)\)$/):
\* Undefined, or the groups [label, description]
DescMatch(fullLabel) ==
    LET open == IndexOf(fullLabel, "(", 0)
        head == Slice(fullLabel, 0, open)
        inner == Slice(fullLabel, open + 1, Len(fullLabel) - 1)
    IN  IF /\ open >= 1
           /\ EndsWith(fullLabel, ")")
           /\ Len(inner) >= 1
           /\ ~Includes(inner, "(")
           /\ ~Includes(inner, ")")
           /\ IsLetter(CharAt(head, 1))
           /\ RunEnd(head, 1, "[A-Za-z\\s]") = Len(head) + 1
        THEN Some([label |-> Trim(head), description |-> inner])
        ELSE Undefined

\* line.match(/\[([^\]]+)\]\(([^)]+)\)/g) mapped to group 2 of each match:
\* the link targets of the line, scanning from 1-based position from
RECURSIVE RefUrls(_, _)
RefUrls(line, from) ==
    LET starts == {p \in from..Len(line) :
                     /\ CharAt(line, p) = "["
                     /\ LET b == RunEnd(line, p + 1, "[^\\]]")
                            c == RunEnd(line, b + 2, "[^)]")
                        IN  /\ b > p + 1
                            /\ b + 1 <= Len(line)
                            /\ SubSeq(line, b, b + 1) = "]("
                            /\ c > b + 2
                            /\ c <= Len(line)}
    IN  IF starts = {} THEN <<>>
        ELSE LET p == Min(starts)
                 b == RunEnd(line, p + 1, "[^\\]]")
                 c == RunEnd(line, b + 2, "[^)]")
             IN  <<SubSeq(line, b + 2, c - 1)>> \o RefUrls(line, c + 1)

(***************************************************************************)
(* parseRuleFile: the line loop                                            *)
(***************************************************************************)
\* LoopInit with impact initialized to the empty string instead of the default level
LoopInit_NoImpact ==
    [impact |-> "",
     impactDescription |-> "",
     explanation |-> "",
     examples |-> <<>>,
     references |-> <<>>,
     currentExample |-> Undefined,
     inCodeBlock |-> FALSE,
     codeBlockLanguage |-> "typescript",
     codeBlockContent |-> <<>>,
     afterCodeBlock |-> FALSE,
     additionalText |-> <<>>,
     hasCodeBlockForCurrentExample |-> FALSE]

\* the local variables of parseRuleFile before the first line of the loop
LoopInit ==
    [impact |-> "MEDIUM",
     impactDescription |-> "",
     explanation |-> "",
     examples |-> <<>>,
     references |-> <<>>,
     currentExample |-> Undefined,
     inCodeBlock |-> FALSE,
     codeBlockLanguage |-> "typescript",
     codeBlockContent |-> <<>>,
     afterCodeBlock |-> FALSE,
     additionalText |-> <<>>,
     hasCodeBlockForCurrentExample |-> FALSE]

\* currentExample with the pending additionalText attached, as it is pushed
ClosedExample(st) ==
    IF Len(st.additionalText) > 0
    THEN [ValueOf(st.currentExample) EXCEPT
            !.additionalText = Some(Join(st.additionalText, "\n\n"))]
    ELSE ValueOf(st.currentExample)

\* ImpactLine storing the level as written
ImpactLine_AsWritten(st, line) ==
    LET m == ImpactMatch(line)
    IN  IF IsDefined(m)
        THEN [st EXCEPT !.impact = ValueOf(m).level,
                        !.impactDescription =
                            IF IsDefined(ValueOf(m).description)
                            THEN ValueOf(ValueOf(m).description) ELSE ""]
        ELSE st

\* the "Impact line" branch
ImpactLine(st, line) ==
    LET m == ImpactMatch(line)
    IN  IF IsDefined(m)
        THEN [st EXCEPT !.impact = ToUpperCase(ValueOf(m).level),
                        !.impactDescription =
                            IF IsDefined(ValueOf(m).description)
                            THEN ValueOf(ValueOf(m).description) ELSE ""]
        ELSE st

\* FenceLine with a closing fence met while no example is open making an example of
\* the block
FenceLine_UnlabelledExample(st, line) ==
    IF st.inCodeBlock
    THEN [st EXCEPT
            !.currentExample =
                Some([(IF IsDefined(st.currentExample) THEN ValueOf(st.currentExample)
                       ELSE [label |-> "", description |-> Undefined, code |-> "",
                             language |-> "", additionalText |-> Undefined])
                      EXCEPT !.code = Join(st.codeBlockContent, "\n"),
                             !.language = st.codeBlockLanguage]),
            !.codeBlockContent = <<>>,
            !.inCodeBlock = FALSE,
            !.afterCodeBlock = TRUE]
    ELSE [st EXCEPT
            !.inCodeBlock = TRUE,
            !.hasCodeBlockForCurrentExample = TRUE,
            !.codeBlockLanguage =
                IF Trim(SliceFrom(line, 3)) # "" THEN Trim(SliceFrom(line, 3))
                ELSE "typescript",
            !.codeBlockContent = <<>>,
            !.afterCodeBlock = FALSE]

\* FenceLine with a closing fence storing the code only when the example has none
FenceLine_FirstBlockStays(st, line) ==
    IF st.inCodeBlock
    THEN [st EXCEPT
            !.currentExample =
                IF IsDefined(st.currentExample) /\ ValueOf(st.currentExample).code = ""
                THEN Some([ValueOf(st.currentExample) EXCEPT
                             !.code = Join(st.codeBlockContent, "\n"),
                             !.language = st.codeBlockLanguage])
                ELSE st.currentExample,
            !.codeBlockContent = <<>>,
            !.inCodeBlock = FALSE,
            !.afterCodeBlock = TRUE]
    ELSE [st EXCEPT
            !.inCodeBlock = TRUE,
            !.hasCodeBlockForCurrentExample = TRUE,
            !.codeBlockLanguage =
                IF Trim(SliceFrom(line, 3)) # "" THEN Trim(SliceFrom(line, 3))
                ELSE "typescript",
            !.codeBlockContent = <<>>,
            !.afterCodeBlock = FALSE]

\* FenceLine with the closing fence forgetting to store the collected code
FenceLine_NoCode(st, line) ==
    IF st.inCodeBlock
    THEN [st EXCEPT !.codeBlockContent = <<>>, !.inCodeBlock = FALSE, !.afterCodeBlock = TRUE]
    ELSE [st EXCEPT
            !.inCodeBlock = TRUE,
            !.hasCodeBlockForCurrentExample = TRUE,
            !.codeBlockLanguage =
                IF Trim(SliceFrom(line, 3)) # "" THEN Trim(SliceFrom(line, 3))
                ELSE "typescript",
            !.codeBlockContent = <<>>,
            !.afterCodeBlock = FALSE]

\* the "Code block start/end" branch
FenceLine(st, line) ==
    IF st.inCodeBlock
    THEN [st EXCEPT
            !.currentExample =
                IF IsDefined(st.currentExample)
                THEN Some([ValueOf(st.currentExample) EXCEPT
                             !.code = Join(st.codeBlockContent, "\n"),
                             !.language = st.codeBlockLanguage])
                ELSE Undefined,
            !.codeBlockContent = <<>>,
            !.inCodeBlock = FALSE,
            !.afterCodeBlock = TRUE]
    ELSE [st EXCEPT
            !.inCodeBlock = TRUE,
            !.hasCodeBlockForCurrentExample = TRUE,
            !.codeBlockLanguage =
                IF Trim(SliceFrom(line, 3)) # "" THEN Trim(SliceFrom(line, 3))
                ELSE "typescript",
            !.codeBlockContent = <<>>,
            !.afterCodeBlock = FALSE]

\* LabelLine leaving afterCodeBlock as it is
LabelLine_KeepAfterFlag(st, fullLabelRaw) ==
    LET fullLabel == Trim(fullLabelRaw)
        descMatch == DescMatch(fullLabel)
        pushed == IF IsDefined(st.currentExample)
                  THEN Append(st.examples, ClosedExample(st))
                  ELSE st.examples
    IN  [st EXCEPT
            !.examples = pushed,
            !.additionalText =
                IF IsDefined(st.currentExample) THEN <<>> ELSE st.additionalText,
            !.hasCodeBlockForCurrentExample = FALSE,
            !.currentExample =
                Some([label |-> IF IsDefined(descMatch)
                                THEN Trim(ValueOf(descMatch).label) ELSE fullLabel,
                      description |-> IF IsDefined(descMatch)
                                      THEN Some(Trim(ValueOf(descMatch).description))
                                      ELSE Undefined,
                      code |-> "",
                      language |-> st.codeBlockLanguage,
                      additionalText |-> Undefined])]

\* LabelLine opening the new example without pushing the open one
LabelLine_NoPush(st, fullLabelRaw) ==
    LET fullLabel == Trim(fullLabelRaw)
        descMatch == DescMatch(fullLabel)
    IN  [st EXCEPT
            !.additionalText =
                IF IsDefined(st.currentExample) THEN <<>> ELSE st.additionalText,
            !.afterCodeBlock = FALSE,
            !.hasCodeBlockForCurrentExample = FALSE,
            !.currentExample =
                Some([label |-> IF IsDefined(descMatch)
                                THEN Trim(ValueOf(descMatch).label) ELSE fullLabel,
                      description |-> IF IsDefined(descMatch)
                                      THEN Some(Trim(ValueOf(descMatch).description))
                                      ELSE Undefined,
                      code |-> "",
                      language |-> st.codeBlockLanguage,
                      additionalText |-> Undefined])]

\* LabelLine pushing the open example without clearing the additionalText buffer
LabelLine_KeepText(st, fullLabelRaw) ==
    LET fullLabel == Trim(fullLabelRaw)
        descMatch == DescMatch(fullLabel)
        pushed == IF IsDefined(st.currentExample)
                  THEN Append(st.examples, ClosedExample(st))
                  ELSE st.examples
    IN  [st EXCEPT
            !.examples = pushed,
            !.afterCodeBlock = FALSE,
            !.hasCodeBlockForCurrentExample = FALSE,
            !.currentExample =
                Some([label |-> IF IsDefined(descMatch)
                                THEN Trim(ValueOf(descMatch).label) ELSE fullLabel,
                      description |-> IF IsDefined(descMatch)
                                      THEN Some(Trim(ValueOf(descMatch).description))
                                      ELSE Undefined,
                      code |-> "",
                      language |-> st.codeBlockLanguage,
                      additionalText |-> Undefined])]

\* the "Example label" branch; fullLabel is group 1 of the label match
LabelLine(st, fullLabelRaw) ==
    LET fullLabel == Trim(fullLabelRaw)
        descMatch == DescMatch(fullLabel)
        pushed == IF IsDefined(st.currentExample)
                  THEN Append(st.examples, ClosedExample(st))
                  ELSE st.examples
    IN  [st EXCEPT
            !.examples = pushed,
            !.additionalText =
                IF IsDefined(st.currentExample) THEN <<>> ELSE st.additionalText,
            !.afterCodeBlock = FALSE,
            !.hasCodeBlockForCurrentExample = FALSE,
            !.currentExample =
                Some([label |-> IF IsDefined(descMatch)
                                THEN Trim(ValueOf(descMatch).label) ELSE fullLabel,
                      description |-> IF IsDefined(descMatch)
                                      THEN Some(Trim(ValueOf(descMatch).description))
                                      ELSE Undefined,
                      code |-> "",
                      language |-> st.codeBlockLanguage,
                      additionalText |-> Undefined])]

IsReferenceLine(line) == StartsWith(line, "Reference:") \/ StartsWith(line, "References:")

\* ReferenceLine leaving the pushed example open
ReferenceLine_KeepOpen(st, line) ==
    [st EXCEPT
        !.examples = IF IsDefined(st.currentExample)
                     THEN Append(st.examples, ClosedExample(st))
                     ELSE st.examples,
        !.additionalText =
            IF IsDefined(st.currentExample) THEN <<>> ELSE st.additionalText,
        !.references = st.references \o RefUrls(line, 1)]

\* the "Reference links" branch
ReferenceLine(st, line) ==
    [st EXCEPT
        !.examples = IF IsDefined(st.currentExample)
                     THEN Append(st.examples, ClosedExample(st))
                     ELSE st.examples,
        !.additionalText =
            IF IsDefined(st.currentExample) THEN <<>> ELSE st.additionalText,
        !.currentExample = Undefined,
        !.references = st.references \o RefUrls(line, 1)]

\* TextLine keeping the prose of an open example only after its code block
TextLine_OnlyAfterBlock(st, line) ==
    IF Trim(line) # "" /\ ~StartsWith(line, "#")
    THEN IF ~IsDefined(st.currentExample) /\ ~st.inCodeBlock
         THEN [st EXCEPT !.explanation =
                  st.explanation \o (IF st.explanation # "" THEN "\n\n" ELSE "") \o line]
         ELSE IF IsDefined(st.currentExample) /\ st.afterCodeBlock
         THEN [st EXCEPT !.additionalText = Append(st.additionalText, line)]
         ELSE st
    ELSE st

\* the "Regular text" branch
TextLine(st, line) ==
    IF Trim(line) # "" /\ ~StartsWith(line, "#")
    THEN IF ~IsDefined(st.currentExample) /\ ~st.inCodeBlock
         THEN [st EXCEPT !.explanation =
                  st.explanation \o (IF st.explanation # "" THEN "\n\n" ELSE "") \o line]
         ELSE IF /\ IsDefined(st.currentExample)
                 /\ (st.afterCodeBlock \/ ~st.hasCodeBlockForCurrentExample)
         THEN [st EXCEPT !.additionalText = Append(st.additionalText, line)]
         ELSE st
    ELSE st

\* LineStep with the Impact branch not ending the iteration: the line goes on to
\* the branches below it
LineStep_ImpactFallsThrough(st, line) ==
    LET st1 == IF Includes(line, "**Impact:") THEN ImpactLine(st, line) ELSE st
    IN  IF StartsWith(line, FENCE) THEN FenceLine(st1, line)
        ELSE IF st1.inCodeBlock
             THEN [st1 EXCEPT !.codeBlockContent = Append(st1.codeBlockContent, line)]
        ELSE IF IsDefined(LabelMatch(line)) THEN LabelLine(st1, ValueOf(LabelMatch(line)))
        ELSE IF IsReferenceLine(line) THEN ReferenceLine(st1, line)
        ELSE TextLine(st1, line)

\* one iteration of the for loop over ruleLines
LineStep(st, line) ==
    IF Includes(line, "**Impact:") THEN ImpactLine(st, line)
    ELSE IF StartsWith(line, FENCE) THEN FenceLine(st, line)
    ELSE IF st.inCodeBlock
         THEN [st EXCEPT !.codeBlockContent = Append(st.codeBlockContent, line)]
    ELSE IF IsDefined(LabelMatch(line)) THEN LabelLine(st, ValueOf(LabelMatch(line)))
    ELSE IF IsReferenceLine(line) THEN ReferenceLine(st, line)
    ELSE TextLine(st, line)

\* the loop from 1-based line i to the end
RECURSIVE LineLoop(_, _, _)
LineLoop(st, ruleLines, i) ==
    IF i > Len(ruleLines) THEN st
    ELSE LineLoop(LineStep(st, ruleLines[i]), ruleLines, i + 1)

\* FinalExamples storing the lines of a block that is still open as the code of the
\* open example
FinalExamples_FlushOpenBlock(st) ==
    IF IsDefined(st.currentExample)
    THEN Append(st.examples,
                IF st.inCodeBlock
                THEN [ClosedExample(st) EXCEPT !.code = Join(st.codeBlockContent, "\n")]
                ELSE ClosedExample(st))
    ELSE st.examples

\* FinalExamples pushing the open example only when it has code
FinalExamples_DropEmpty(st) ==
    IF IsDefined(st.currentExample) /\ ValueOf(st.currentExample).code # ""
    THEN Append(st.examples, ClosedExample(st))
    ELSE st.examples

\* "Handle last example"
FinalExamples(st) ==
    IF IsDefined(st.currentExample)
    THEN Append(st.examples, ClosedExample(st))
    ELSE st.examples

RECURSIVE TrimAll(_)
TrimAll(parts) ==
    IF Len(parts) = 0 THEN <<>> ELSE <<Trim(parts[1])>> \o TrimAll(Tail(parts))

\* the lines of the body: content.slice(contentStart).trim().split("\n")
RuleLines(text) == Split(Trim(SliceFrom(text, ContentStart(text))), "\n")

\* the state of the locals when the loop has run over every line after the title line
LoopResult(text) ==
    LineLoop(LoopInit, RuleLines(text), TitleLine(RuleLines(text)) + 2)

\* BuildRule with the explanation of the body, when it has one, before the
\* frontmatter's
BuildRule_BodyExplanation(frontmatter, title, st) ==
    [title |-> OrElse(FmGet(frontmatter, "title"), title),
     impact |-> OrElse(FmGet(frontmatter, "impact"), st.impact),
     impactDescription |->
        IF Truthy(FmGet(frontmatter, "impactDescription"))
        THEN FmGet(frontmatter, "impactDescription")
        ELSE IF st.impactDescription # "" THEN Some(st.impactDescription)
        ELSE Undefined,
     explanation |->
        IF Trim(st.explanation) # "" THEN Trim(st.explanation)
        ELSE OrElse(FmGet(frontmatter, "explanation"), ""),
     examples |-> FinalExamples(st),
     references |->
        IF Truthy(FmGet(frontmatter, "references"))
        THEN Some(TrimAll(Split(ValueOf(FmGet(frontmatter, "references")), ",")))
        ELSE IF Len(st.references) > 0 THEN Some(st.references)
        ELSE Undefined,
     tags |->
        IF Truthy(FmGet(frontmatter, "tags"))
        THEN Some(TrimAll(Split(ValueOf(FmGet(frontmatter, "tags")), ",")))
        ELSE Undefined]

\* BuildRule with the operands of || swapped: the body's values come first
BuildRule_BodyFirst(frontmatter, title, st) ==
    [title |-> IF title # "" THEN title ELSE OrElse(FmGet(frontmatter, "title"), ""),
     impact |-> IF st.impact # "" THEN st.impact
                ELSE OrElse(FmGet(frontmatter, "impact"), ""),
     impactDescription |->
        IF st.impactDescription # "" THEN Some(st.impactDescription)
        ELSE IF Truthy(FmGet(frontmatter, "impactDescription"))
        THEN FmGet(frontmatter, "impactDescription")
        ELSE Undefined,
     explanation |-> IF Trim(st.explanation) # "" THEN Trim(st.explanation)
                     ELSE OrElse(FmGet(frontmatter, "explanation"), ""),
     examples |-> FinalExamples(st),
     references |->
        IF Len(st.references) > 0 THEN Some(st.references)
        ELSE IF Truthy(FmGet(frontmatter, "references"))
        THEN Some(TrimAll(Split(ValueOf(FmGet(frontmatter, "references")), ",")))
        ELSE Undefined,
     tags |->
        IF Truthy(FmGet(frontmatter, "tags"))
        THEN Some(TrimAll(Split(ValueOf(FmGet(frontmatter, "tags")), ",")))
        ELSE Undefined]

\* the Rule built from the frontmatter, the body title and the loop's result
BuildRule(frontmatter, title, st) ==
    [title |-> OrElse(FmGet(frontmatter, "title"), title),
     impact |-> OrElse(FmGet(frontmatter, "impact"), st.impact),
     impactDescription |->
        IF Truthy(FmGet(frontmatter, "impactDescription"))
        THEN FmGet(frontmatter, "impactDescription")
        ELSE IF st.impactDescription # "" THEN Some(st.impactDescription)
        ELSE Undefined,
     explanation |-> OrElse(FmGet(frontmatter, "explanation"), Trim(st.explanation)),
     examples |-> FinalExamples(st),
     references |->
        IF Truthy(FmGet(frontmatter, "references"))
        THEN Some(TrimAll(Split(ValueOf(FmGet(frontmatter, "references")), ",")))
        ELSE IF Len(st.references) > 0 THEN Some(st.references)
        ELSE Undefined,
     tags |->
        IF Truthy(FmGet(frontmatter, "tags"))
        THEN Some(TrimAll(Split(ValueOf(FmGet(frontmatter, "tags")), ",")))
        ELSE Undefined]

\* parseRuleFile from "Extract title" on, given the frontmatter and the body lines
ParseBody(frontmatter, ruleLines) ==
    BuildRule(frontmatter, BodyTitle(ruleLines),
              LineLoop(LoopInit, ruleLines, TitleLine(ruleLines) + 2))

\* parseRuleFile from "Extract frontmatter" on, given the normalized content
ParseContent(text) == ParseBody(Frontmatter(text), RuleLines(text))

\* parseRuleFile after the file read: rawContent -> Rule
ParseRuleFile(rawContent) == ParseContent(NormalizeNewlines(rawContent))

(***************************************************************************)
(* validateRule                                                            *)
(***************************************************************************)
VALID_IMPACTS == <<"CRITICAL", "HIGH", "MEDIUM-HIGH", "MEDIUM", "LOW-MEDIUM", "LOW">>

MsgMissingTitle == "Missing or empty title"
MsgMissingExplanation == "Missing or empty explanation"
MsgMissingExamples ==
    "Missing examples (need at least one incorrect and one correct example)"
MsgMissingCode == "Missing code examples"
MsgMissingLabels == "Missing incorrect or correct examples"

\* MsgInvalidImpact without the list of the valid levels
MsgInvalidImpact_NoList(impact) == "Invalid impact level: " \o impact

MsgInvalidImpact(impact) ==
    "Invalid impact level: " \o impact \o ". Must be one of: " \o Join(VALID_IMPACTS, ", ")

\* the filter callback: e.code && e.code.trim().length > 0
HasCode(e) == Trim(e.code) # ""

\* LabelIncludes without the conversion to lower case
LabelIncludes_CaseSensitive(e, word) == Includes(e.label, word)

LabelIncludes(e, word) == Includes(ToLowerCase(e.label), word)

IsIncorrectLabel(e) ==
    LabelIncludes(e, "incorrect") \/ LabelIncludes(e, "wrong") \/ LabelIncludes(e, "bad")

IsCorrectLabel(e) ==
    \/ LabelIncludes(e, "correct")
    \/ LabelIncludes(e, "good")
    \/ LabelIncludes(e, "usage")
    \/ LabelIncludes(e, "implementation")
    \/ LabelIncludes(e, "example")

TitleCheck(r) == IF Trim(r.title) = "" THEN <<MsgMissingTitle>> ELSE <<>>

ExplanationCheck(r) == IF Trim(r.explanation) = "" THEN <<MsgMissingExplanation>> ELSE <<>>

\* ExamplesCheck without the codeExamples.length === 0 branch
ExamplesCheck_NoCodeTest(r) ==
    IF Len(r.examples) = 0 THEN <<MsgMissingExamples>>
    ELSE LET codeExamples == SelectSeq(r.examples, HasCode)
             hasIncorrect == \E k \in 1..Len(codeExamples) : IsIncorrectLabel(codeExamples[k])
             hasCorrect == \E k \in 1..Len(codeExamples) : IsCorrectLabel(codeExamples[k])
         IN  IF ~hasIncorrect /\ ~hasCorrect THEN <<MsgMissingLabels>> ELSE <<>>

ExamplesCheck(r) ==
    IF Len(r.examples) = 0 THEN <<MsgMissingExamples>>
    ELSE LET codeExamples == SelectSeq(r.examples, HasCode)
             hasIncorrect == \E k \in 1..Len(codeExamples) : IsIncorrectLabel(codeExamples[k])
             hasCorrect == \E k \in 1..Len(codeExamples) : IsCorrectLabel(codeExamples[k])
         IN  IF Len(codeExamples) = 0 THEN <<MsgMissingCode>>
             ELSE IF ~hasIncorrect /\ ~hasCorrect THEN <<MsgMissingLabels>>
             ELSE <<>>

IsValidImpact(impact) == \E k \in 1..Len(VALID_IMPACTS) : VALID_IMPACTS[k] = impact

ImpactCheck(r) == IF ~IsValidImpact(r.impact) THEN <<MsgInvalidImpact(r.impact)>> ELSE <<>>

\* RuleMessages returning at the first failed check
RuleMessages_ShortCircuit(r) ==
    IF TitleCheck(r) # <<>> THEN TitleCheck(r)
    ELSE IF ExplanationCheck(r) # <<>> THEN ExplanationCheck(r)
    ELSE IF ExamplesCheck(r) # <<>> THEN ExamplesCheck(r)
    ELSE ImpactCheck(r)

\* the messages validateRule pushes, in push order
RuleMessages(r) == TitleCheck(r) \o ExplanationCheck(r) \o ExamplesCheck(r) \o ImpactCheck(r)

ValidateRule(r, file) ==
    [k \in 1..Len(RuleMessages(r)) |-> [file |-> file, message |-> RuleMessages(r)[k]]]

(***************************************************************************)
(* The rule files given to the parser                                      *)
(***************************************************************************)
\* the most blocks one generated rule file is built from: an optional frontmatter
\* block followed by body fragments
MaxBlocks == 3

FrontmatterSamples ==
    { "---\ntitle: FM Title\nimpact: HIGH\ntags: a, b\nreferences: https://x.io/a, https://x.io/b\n---\n",
      "---\r\nimpact: UNKNOWN_LEVEL\r\ntags: \"x\"\r\n---\r\n",
      "---\ntitle:\nimpact: \"\"\ntags:\nreferences:\n---\n",
      "---\nimpact: high\nexplanation: From frontmatter\nimpactDescription: why\n---\n",
      "---\ntitle: Unclosed\n" }

Fragments ==
    { "##  Rule A  \n\nIt explains.",
      "## Rule B",
      "### Details\nMore prose.",
      "**Incorrect:**\n^^^ts\nbad()\n^^^",
      "**Correct (fixed):**\n^^^\ngood()\n^^^",
      "**Incorrect:**\n^^^\n^^^",
      "**Correct:**\n^^^\n \n^^^",
      "**Note:**",
      "^^^js\nextra()\n^^^",
      "^^^",
      "Reference: [Docs](https://e.com/d)",
      "**Impact: low-medium (minor)**" }

BodiesUpTo(n) == UNION {[1..k -> Fragments] : k \in 0..n}

\* whole rule files with prose after a Reference line, with a code block whose lines
\* look like body markup, with prose around the code blocks of two examples, and
\* with text behind the marker of a closing fence, with label lines that end with
\* a parenthetical, and with frontmatter lines without colon, without key, with
\* quotes and with several colons, with code blocks before the first label and
\* after a Reference line, and with a code block left open before a label and a
\* Reference line, and with a frontmatter explanation that is a quoted blank
CraftedFiles ==
    { "## T\n**Incorrect:**\n^^^\nx\n^^^\nReference: [D](https://e.com/d)\nTrailing prose.",
      "## T\nWhy.\n**Correct:**\n^^^ts\n**Label:**\nReference: [x](y)\n## H\n**Impact: HIGH**\ncode()\n^^^\nAfter.",
      "## T\nWhy.\n**Incorrect:**\nBefore.\n^^^\nx\n^^^\nAfter one.\n\nAfter two.\n**Correct:**\n^^^\ny\n^^^\nReference: [D](https://e.com/d)",
      "## T\nWhy.\n**Correct:**\n^^^\ncode()\n^^^ **Impact: HIGH**\nAfter.\n**Incorrect:**\n^^^\nx\n^^^",
      "## T\nWhy.\n**Correct:**\n^^^\ncode()\n^^^ts\nAfter.\n**Incorrect:**\n^^^js\nx\n^^^",
      "## T\nWhy.\n**Step 2 (setup):**\n^^^\nx\n^^^\n**Bad usage  ( two  words ):**\n^^^\ny\n^^^\n**Plain:**\n**Good (a (b)):**",
      "## T\nWhy.\n^^^sh\nearly()\n^^^\n**Incorrect:**\n^^^\nx\n^^^\nReference: [D](https://e.com/d)\n^^^js\nlate()\n^^^\nTail.",
      "## T\nWhy.\n**Incorrect:**\nBefore.\n^^^\nx\n^^^\n^^^ts\nlost()\n**Correct:**\nReference: [D](https://e.com/d)\nTail.",
      "---\nexplanation: \" \"\n---\n## T\n**Incorrect:**\n^^^\nx\n^^^",
      "---\njust words\n: orphan\n  title  :  'Quoted: with colon' \nimpact: \"LOW\nurl: https://x.io/a:b\n---\n## T\nWhy." }

\* the generated rule files
RuleFiles ==
    {Join(body, "\n") : body \in BodiesUpTo(MaxBlocks)}
    \cup {fm \o Join(body, "\n") : fm \in FrontmatterSamples, body \in BodiesUpTo(MaxBlocks - 1)}
    \cup CraftedFiles

RuleFileName == "rule.md"

\* the locals of parseRuleFile before the file is read
NoLocals == [content |-> "", frontmatter |-> <<>>, ruleLines |-> <<>>]

\* the locals of parseRuleFile when the text is read and cut: lines 186-208
ReadLocals(rawContent) ==
    LET text == NormalizeNewlines(rawContent)
    IN  [content |-> text,
         frontmatter |-> Frontmatter(text) \o <<>>,
         ruleLines |-> RuleLines(text) \o <<>>]

NoRule == [title |-> "", impact |-> "", impactDescription |-> Undefined,
           explanation |-> "", examples |-> <<>>, references |-> Undefined,
           tags |-> Undefined]

(***************************************************************************)
(* ParseSpec: one rule file through parseRuleFile and validateRule         *)
(***************************************************************************)
RunIdle ==
    /\ pc = "idle"
    /\ skillIdx = 0
    /\ files = <<>>
    /\ ruleFiles = <<>>
    /\ fileIdx = 0
    /\ totalFiles = 0
    /\ allErrors = <<>>
    /\ exitCode = -1
    /\ stdout = <<>>
    /\ stderr = <<>>
    /\ reads = <<>>

ParseInit ==
    /\ content \in RuleFiles
    /\ phase = "read"
    /\ locals = NoLocals
    /\ rule = NoRule
    /\ errors = <<>>
    /\ RunIdle

\* validate.ts line 109: const { rule } = await parseRuleFile(filePath)
Parse ==
    /\ phase = "read"
    /\ locals' = ReadLocals(content)
    /\ rule' = ParseBody(locals'.frontmatter, locals'.ruleLines)
    /\ phase' = "parsed"
    /\ UNCHANGED <<content, errors>>
    /\ UNCHANGED runVars

\* validate.ts line 110: const errors = validateRule(rule, file)
Validate ==
    /\ phase = "parsed"
    /\ errors' = ValidateRule(rule, RuleFileName)
    /\ phase' = "validated"
    /\ UNCHANGED <<content, locals, rule>>
    /\ UNCHANGED runVars

ParseNext == Parse \/ Validate

ParseSpec == ParseInit /\ [][ParseNext]_vars

(***************************************************************************)
(* Spec: validate(), the run over the configured skills                    *)
(***************************************************************************)
\* the keys of SKILLS in configuration order.  config.ts configures the first;
\* the second one makes the loop over the skills take more than one turn.
SKILLS == <<"fastify-best-practise", "second-skill">>

\* config.rulesDir of a skill
RulesDir(skillName) == "skills/" \o skillName \o "/rules"

\* path.join(dir, file)
JoinPath(dir, file) == dir \o "/" \o file

\* the most entries a listed directory holds
MaxEntries == 2

EntryNames == {"a.md", "b.md", "_draft.md", "notes.txt"}

\* the results readdir can give: sequences of distinct entry names
Listings ==
    {l \in UNION {[1..n -> EntryNames] : n \in 0..MaxEntries} :
        \A i, j \in 1..Len(l) : i # j => l[i] # l[j]}

\* the rejections of readdir and readFile
ReaddirErrors == {"ENOENT: no such file or directory, scandir"}
ReadFileErrors == {"EACCES: permission denied, open"}

\* the texts readFile can return
SampleFiles ==
    { "## T\nWhy.\n**Bad:**\n^^^\nx\n^^^",
      "",
      "---\nimpact: none\n---\n## T\nWhy.\n**Usage:**\n^^^\nx\n^^^",
      "---\nimpact: none\n---" }

\* parseRuleFile on each of the texts readFile can return
ParsedSamples == [text \in SampleFiles |-> ParseRuleFile(text)]

\* IsRuleFile without the test for the ignore marker
IsRuleFile_NoMarker(f) == EndsWith(f, ".md")

\* the filter callback of validate.ts line 102
IsRuleFile(f) == EndsWith(f, ".md") /\ ~StartsWith(f, "_")

FilesDone == fileIdx > Len(ruleFiles)

ParseIdle ==
    /\ content = ""
    /\ phase = "idle"
    /\ locals = NoLocals
    /\ rule = NoRule
    /\ errors = <<>>

Init ==
    /\ pc = "run"
    /\ skillIdx = 0
    /\ files = <<>>
    /\ ruleFiles = <<>>
    /\ fileIdx = 1
    /\ totalFiles = 0
    /\ allErrors = <<>>
    /\ exitCode = -1
    /\ stdout = <<>>
    /\ stderr = <<>>
    /\ reads = <<>>
    /\ ParseIdle

SkillHeading(skillName) ==
    <<"\nValidating skill: " \o skillName, "Rules directory: " \o RulesDir(skillName)>>

\* ReaddirOk with the loop over ruleFiles starting one entry late
ReaddirOk_SkipFirst ==
    /\ pc = "run"
    /\ FilesDone
    /\ skillIdx < Len(SKILLS)
    /\ \E listing \in Listings :
        /\ files' = listing
        /\ ruleFiles' = SelectSeq(listing, IsRuleFile)
        /\ totalFiles' = totalFiles + Len(SelectSeq(listing, IsRuleFile))
    /\ skillIdx' = skillIdx + 1
    /\ fileIdx' = 2
    /\ stdout' = stdout \o SkillHeading(SKILLS[skillIdx + 1])
    /\ UNCHANGED <<pc, allErrors, exitCode, stderr, reads>>
    /\ UNCHANGED parseVars

\* the next turn of the loop over SKILLS, readdir resolving: lines 96-104
ReaddirOk ==
    /\ pc = "run"
    /\ FilesDone
    /\ skillIdx < Len(SKILLS)
    /\ \E listing \in Listings :
        /\ files' = listing
        /\ ruleFiles' = SelectSeq(listing, IsRuleFile)
        /\ totalFiles' = totalFiles + Len(SelectSeq(listing, IsRuleFile))
    /\ skillIdx' = skillIdx + 1
    /\ fileIdx' = 1
    /\ stdout' = stdout \o SkillHeading(SKILLS[skillIdx + 1])
    /\ UNCHANGED <<pc, allErrors, exitCode, stderr, reads>>
    /\ UNCHANGED parseVars

ErrorLine(e) == "  " \o e.file \o ": " \o e.message

\* the cross and the check mark of the two summary lines are written [x] and [v]
FailureHeading == "\n[x] Validation failed:\n"
SuccessLine(n) == "\n[v] All " \o ToString(n) \o " rule files are valid"

\* ReaddirFail with the collected errors listed before the listing error
ReaddirFail_ReportsCollected ==
    /\ pc = "run"
    /\ FilesDone
    /\ skillIdx < Len(SKILLS)
    /\ \E e \in ReaddirErrors :
        stderr' = stderr
                  \o (IF Len(allErrors) > 0
                      THEN <<FailureHeading>>
                           \o [k \in 1..Len(allErrors) |-> ErrorLine(allErrors[k])]
                      ELSE <<>>)
                  \o <<"Validation failed: " \o e>>
    /\ skillIdx' = skillIdx + 1
    /\ stdout' = stdout \o SkillHeading(SKILLS[skillIdx + 1])
    /\ exitCode' = 1
    /\ pc' = "done"
    /\ UNCHANGED <<files, ruleFiles, fileIdx, totalFiles, allErrors, reads>>
    /\ UNCHANGED parseVars

\* ReaddirFail with the rejection caught inside the loop: the skill is skipped
ReaddirFail_Continue ==
    /\ pc = "run"
    /\ FilesDone
    /\ skillIdx < Len(SKILLS)
    /\ \E e \in ReaddirErrors :
        stderr' = Append(stderr, "Validation failed: " \o e)
    /\ skillIdx' = skillIdx + 1
    /\ stdout' = stdout \o SkillHeading(SKILLS[skillIdx + 1])
    /\ ruleFiles' = <<>>
    /\ fileIdx' = 1
    /\ UNCHANGED <<pc, files, exitCode, totalFiles, allErrors, reads>>
    /\ UNCHANGED parseVars

\* the next turn of the loop over SKILLS, readdir rejecting: lines 96-100, 132-135
ReaddirFail ==
    /\ pc = "run"
    /\ FilesDone
    /\ skillIdx < Len(SKILLS)
    /\ \E e \in ReaddirErrors :
        stderr' = Append(stderr, "Validation failed: " \o e)
    /\ skillIdx' = skillIdx + 1
    /\ stdout' = stdout \o SkillHeading(SKILLS[skillIdx + 1])
    /\ exitCode' = 1
    /\ pc' = "done"
    /\ UNCHANGED <<files, ruleFiles, fileIdx, totalFiles, allErrors, reads>>
    /\ UNCHANGED parseVars

FileId == SKILLS[skillIdx] \o "/" \o ruleFiles[fileIdx]

\* FileOk putting the file's errors in front of the collected ones
FileOk_Prepend ==
    /\ pc = "run"
    /\ ~FilesDone
    /\ \E text \in SampleFiles :
        allErrors' = ValidateRule(ParsedSamples[text], FileId) \o allErrors
    /\ reads' = Append(reads, JoinPath(RulesDir(SKILLS[skillIdx]), ruleFiles[fileIdx]))
    /\ fileIdx' = fileIdx + 1
    /\ UNCHANGED <<pc, skillIdx, files, ruleFiles, totalFiles, exitCode, stdout, stderr>>
    /\ UNCHANGED parseVars

\* one turn of the loop over ruleFiles, the file parsed and validated: lines 106-111
FileOk ==
    /\ pc = "run"
    /\ ~FilesDone
    /\ \E text \in SampleFiles :
        allErrors' = allErrors \o ValidateRule(ParsedSamples[text], FileId)
    /\ reads' = Append(reads, JoinPath(RulesDir(SKILLS[skillIdx]), ruleFiles[fileIdx]))
    /\ fileIdx' = fileIdx + 1
    /\ UNCHANGED <<pc, skillIdx, files, ruleFiles, totalFiles, exitCode, stdout, stderr>>
    /\ UNCHANGED parseVars

FailedToParse(file, e) == [file |-> file, message |-> "Failed to parse: " \o e]

\* FileFail without the inner try: the failure reaches the top-level catch
FileFail_Abort ==
    /\ pc = "run"
    /\ ~FilesDone
    /\ \E e \in ReadFileErrors :
        /\ allErrors' = Append(allErrors, FailedToParse(FileId, e))
        /\ stderr' = Append(stderr, "Validation failed: " \o e)
    /\ reads' = Append(reads, JoinPath(RulesDir(SKILLS[skillIdx]), ruleFiles[fileIdx]))
    /\ exitCode' = 1
    /\ pc' = "done"
    /\ UNCHANGED <<skillIdx, files, ruleFiles, fileIdx, totalFiles, stdout>>
    /\ UNCHANGED parseVars

\* one turn of the loop over ruleFiles, parseRuleFile throwing: lines 106-109, 112-119
FileFail ==
    /\ pc = "run"
    /\ ~FilesDone
    /\ \E e \in ReadFileErrors :
        allErrors' = Append(allErrors, FailedToParse(FileId, e))
    /\ reads' = Append(reads, JoinPath(RulesDir(SKILLS[skillIdx]), ruleFiles[fileIdx]))
    /\ fileIdx' = fileIdx + 1
    /\ UNCHANGED <<pc, skillIdx, files, ruleFiles, totalFiles, exitCode, stdout, stderr>>
    /\ UNCHANGED parseVars

\* ReportFailure without process.exit(1)
ReportFailure_NoExit ==
    /\ pc = "run"
    /\ FilesDone
    /\ skillIdx = Len(SKILLS)
    /\ Len(allErrors) > 0
    /\ stderr' = stderr \o <<FailureHeading>>
                 \o [k \in 1..Len(allErrors) |-> ErrorLine(allErrors[k])]
    /\ exitCode' = 0
    /\ pc' = "done"
    /\ UNCHANGED <<skillIdx, files, ruleFiles, fileIdx, totalFiles, allErrors, stdout, reads>>
    /\ UNCHANGED parseVars

\* lines 123-128: the failure listing and process.exit(1)
ReportFailure ==
    /\ pc = "run"
    /\ FilesDone
    /\ skillIdx = Len(SKILLS)
    /\ Len(allErrors) > 0
    /\ stderr' = stderr \o <<FailureHeading>>
                 \o [k \in 1..Len(allErrors) |-> ErrorLine(allErrors[k])]
    /\ exitCode' = 1
    /\ pc' = "done"
    /\ UNCHANGED <<skillIdx, files, ruleFiles, fileIdx, totalFiles, allErrors, stdout, reads>>
    /\ UNCHANGED parseVars

\* lines 129-131: the success line; validate returns and the process exits with 0
ReportSuccess ==
    /\ pc = "run"
    /\ FilesDone
    /\ skillIdx = Len(SKILLS)
    /\ Len(allErrors) = 0
    /\ stdout' = Append(stdout, SuccessLine(totalFiles))
    /\ exitCode' = 0
    /\ pc' = "done"
    /\ UNCHANGED <<skillIdx, files, ruleFiles, fileIdx, totalFiles, allErrors, stderr, reads>>
    /\ UNCHANGED parseVars

Next ==
    \/ ReaddirOk
    \/ ReaddirFail
    \/ FileOk
    \/ FileFail
    \/ ReportFailure
    \/ ReportSuccess

Spec == Init /\ [][Next]_vars

\* the run when every pending readdir and readFile settles: the awaited call resumes
\* validate, so a step that is possible is eventually taken
FairSpec == Spec /\ WF_vars(Next)

(***************************************************************************)
(* Properties of the run (Spec)                                            *)
(***************************************************************************)
\* the top-level catch of validate has reported a failure
DirFailed == \E k \in 1..Len(stderr) : StartsWith(stderr[k], "Validation failed:")

\* C3: when the run has ended, the exit status is 1 exactly if a ValidationError
\* was collected or the top-level catch ran; otherwise it is 0 and the last line
\* printed is the success line carrying the number of files examined.
C3_ExitStatus ==
    /\ pc = "run" => exitCode = -1
    /\ pc = "done" =>
        /\ exitCode \in {0, 1}
        /\ exitCode = 1 <=> (Len(allErrors) > 0 \/ DirFailed)
        /\ exitCode = 0 =>
            /\ Len(stdout) > 0
            /\ stdout[Len(stdout)] = SuccessLine(totalFiles)
            /\ totalFiles = Len(reads)
            /\ stderr = <<>>

C3_Witness == pc = "done" /\ exitCode = 0 /\ totalFiles >= 2

IsParseFailure(e) == StartsWith(e.message, "Failed to parse: ")

\* a step in which a file was handed to parseRuleFile and a parse failure recorded
ParseFailureStep ==
    /\ Len(reads') = Len(reads) + 1
    /\ Len(allErrors') > Len(allErrors)
    /\ IsParseFailure(allErrors'[Len(allErrors')])

\* C7: a file whose read or parse throws adds exactly one "Failed to parse" error
\* under its own name and nothing else, keeps the errors collected so far, and the
\* loop goes on with the next file: unless a directory listing fails, the run ends
\* with every candidate file of every skill handed to the parser.
C7_ParseFailureIsLocal ==
    /\ [][ParseFailureStep =>
            /\ allErrors' = Append(allErrors, allErrors'[Len(allErrors')])
            /\ allErrors'[Len(allErrors')].file = SKILLS[skillIdx] \o "/" \o ruleFiles[fileIdx]
            /\ pc' = "run"
            /\ exitCode' = -1
            /\ fileIdx' = fileIdx + 1
            /\ UNCHANGED <<skillIdx, ruleFiles, totalFiles>>]_vars
    /\ [](pc = "done" =>
            /\ Len(reads) = totalFiles
            /\ ~DirFailed => skillIdx = Len(SKILLS))

\* a run that went on after a parse failure, into the next file and the next skill
C7_Witness ==
    /\ pc = "done"
    /\ ~DirFailed
    /\ Len(allErrors) >= 2
    /\ IsParseFailure(allErrors[1])
    /\ allErrors[1].file = SKILLS[1] \o "/a.md"
    /\ Len(reads) = 4

\* C8: when a directory listing fails the run is over: the error is reported, the
\* exit status is 1, no step follows, and no file of the failing skill or of a
\* later skill was handed to the parser.
C8_ListingFailureAborts ==
    DirFailed =>
        /\ pc = "done"
        /\ exitCode = 1
        /\ ~ENABLED Next
        /\ StartsWith(stderr[Len(stderr)], "Validation failed: ")
        /\ \A k \in skillIdx..Len(SKILLS), r \in 1..Len(reads) :
              ~StartsWith(reads[r], RulesDir(SKILLS[k]))

\* the second skill's listing failed after files of the first skill were processed
C8_Witness == DirFailed /\ skillIdx = 2 /\ Len(reads) = 2 /\ skillIdx = Len(SKILLS)

(***************************************************************************)
(* Properties of parseRuleFile and validateRule (ParseSpec)                *)
(***************************************************************************)
\* parseRuleFile has returned and validateRule has not been called yet
Parsed == phase = "parsed"
Validated == phase = "validated"

\* the text the parser works on, its frontmatter record and its body lines
Text == locals.content
Fm == locals.frontmatter
Body == locals.ruleLines

Messages == [k \in 1..Len(errors) |-> errors[k].message]
Reports(msg) == \E k \in 1..Len(errors) : errors[k].message = msg

\* how the line loop reads a line met outside a code block
Kind(line) ==
    IF Includes(line, "**Impact:") THEN "impact"
    ELSE IF StartsWith(line, FENCE) THEN "fence"
    ELSE IF IsDefined(LabelMatch(line)) THEN "label"
    ELSE IF IsReferenceLine(line) THEN "reference"
    ELSE "text"

\* the 1-based indices of the body lines of one kind that follow the title line
After(lines, kind) ==
    {i \in (TitleLine(lines) + 2)..Len(lines) : Kind(lines[i]) = kind}

\* the label a label line gives its example: the text before a trailing parenthetical
LabelOf(line) ==
    LET full == Trim(ValueOf(LabelMatch(line)))
    IN  IF IsDefined(DescMatch(full)) THEN ValueOf(DescMatch(full)).label ELSE full

\* the code between two fence lines: the lines the loop does not take for Impact lines
CodeBetween(lines, open, close) ==
    Join(SelectSeq(SubSeq(lines, open + 1, close - 1),
                   LAMBDA l : ~Includes(l, "**Impact:")), "\n")

\* the lines after the title line hold exactly two labelled examples, each with
\* exactly one fenced code block, one label containing "Incorrect" and the other
\* "Correct", and no Reference line cuts an example short
OneBlockUnderEachLabel(lines) ==
    LET L == Sorted(After(lines, "label"))
        F == Sorted(After(lines, "fence"))
    IN  /\ Len(L) = 2
        /\ Len(F) = 4
        /\ L[1] < F[1]
        /\ F[2] < L[2]
        /\ L[2] < F[3]
        /\ \A r \in After(lines, "reference") : r < L[1] \/ r > F[4]
        /\ \/ /\ Includes(LabelOf(lines[L[1]]), "Incorrect")
              /\ Includes(LabelOf(lines[L[2]]), "Correct")
           \/ /\ Includes(LabelOf(lines[L[1]]), "Correct")
              /\ Includes(LabelOf(lines[L[2]]), "Incorrect")

\* one of the two code blocks of such a file holds non-blank code
SomeBlockHasCode(lines) ==
    LET F == Sorted(After(lines, "fence"))
    IN  \/ Trim(CodeBetween(lines, F[1], F[2])) # ""
        \/ Trim(CodeBetween(lines, F[3], F[4])) # ""

FieldsValid ==
    /\ Trim(rule.title) # ""
    /\ Trim(rule.explanation) # ""
    /\ rule.impact \in {"CRITICAL", "HIGH", "MEDIUM-HIGH", "MEDIUM", "LOW-MEDIUM", "LOW"}

\* C1 as stated: a rule file with a title, an explanation, a valid impact and one
\* fenced code block under an "Incorrect" label and one under a "Correct" label
\* validates without errors.
C1_AsStated ==
    Validated /\ FieldsValid /\ OneBlockUnderEachLabel(Body) => errors = <<>>

\* C1 as amended: the same, when at least one of the two code blocks holds
\* non-blank code.
C1_TwoLabelledBlocksValidate ==
    Validated /\ FieldsValid /\ OneBlockUnderEachLabel(Body) /\ SomeBlockHasCode(Body)
        => errors = <<>>

\* such a file whose "Correct" block is blank and whose "Incorrect" block is not
C1_Witness ==
    /\ Validated
    /\ FieldsValid
    /\ OneBlockUnderEachLabel(Body)
    /\ SomeBlockHasCode(Body)
    /\ \E k \in 1..Len(rule.examples) : Trim(rule.examples[k].code) = ""
    /\ errors = <<>>

IsExamplesMessage(msg) == msg \in {MsgMissingExamples, MsgMissingCode, MsgMissingLabels}

NoExamplesError == \A k \in 1..Len(errors) : ~IsExamplesMessage(errors[k].message)

\* C2: a rule passes the examples check only if some example with code has an
\* incorrect-style label and some example with code has a correct-style label.
C2_NeedsIncorrectAndCorrect ==
    Validated /\ NoExamplesError =>
        /\ \E k \in 1..Len(rule.examples) :
              HasCode(rule.examples[k]) /\ IsIncorrectLabel(rule.examples[k])
        /\ \E k \in 1..Len(rule.examples) :
              HasCode(rule.examples[k]) /\ IsCorrectLabel(rule.examples[k])

FmDefines(key) == IsDefined(FmGet(Fm, key))
FmValue(key) == ValueOf(FmGet(Fm, key))

\* the comma-separated values of a frontmatter field
CommaValues(key) == TrimAll(Split(FmValue(key), ","))

FmDefinesAll ==
    FmDefines("title") /\ FmDefines("impact") /\ FmDefines("tags") /\ FmDefines("references")

FrontmatterWins ==
    /\ rule.title = FmValue("title")
    /\ rule.impact = FmValue("impact")
    /\ rule.tags = Some(CommaValues("tags"))
    /\ rule.references = Some(CommaValues("references"))

\* C4 as stated: when the frontmatter defines title, impact, tags and references,
\* the Rule carries the frontmatter's values whatever the body holds.
C4_AsStated == Parsed /\ FmDefinesAll => FrontmatterWins

\* C4 as amended: the same, for the fields the frontmatter gives a non-empty value.
C4_FrontmatterPrecedence ==
    Parsed =>
        /\ Truthy(FmGet(Fm, "title")) => rule.title = FmValue("title")
        /\ Truthy(FmGet(Fm, "impact")) => rule.impact = FmValue("impact")
        /\ Truthy(FmGet(Fm, "tags")) => rule.tags = Some(CommaValues("tags"))
        /\ Truthy(FmGet(Fm, "references")) =>
              rule.references = Some(CommaValues("references"))

\* a frontmatter with the four fields over a body whose heading and Impact line
\* say something else
C4_Witness ==
    /\ Parsed
    /\ FmDefinesAll
    /\ FrontmatterWins
    /\ Len(CommaValues("tags")) = 2
    /\ BodyTitle(Body) \notin {"", rule.title}
    /\ LoopResult(Text).impact # rule.impact

HasNoFence(lines) == \A i \in 1..Len(lines) : ~StartsWith(lines[i], FENCE)

\* C5 as stated: a body without fenced code blocks parses to no examples and is
\* reported as "Missing examples".
C5_AsStated ==
    Validated /\ HasNoFence(Body) => rule.examples = <<>> /\ Reports(MsgMissingExamples)

\* C5 as amended: a body without fenced code blocks parses to examples without
\* code, and is reported as "Missing examples" when it has no example at all and
\* as "Missing code examples" when it has.
C5_NoFenceNoCode ==
    Validated /\ HasNoFence(Body) =>
        /\ \A k \in 1..Len(rule.examples) : rule.examples[k].code = ""
        /\ rule.examples = <<>> => Reports(MsgMissingExamples)
        /\ rule.examples # <<>> => Reports(MsgMissingCode)
        /\ ~NoExamplesError

\* a body of labels and prose only
C5_Witness ==
    /\ Validated
    /\ HasNoFence(Body)
    /\ Len(rule.examples) = 2
    /\ Reports(MsgMissingCode)

IsLevel(value) == value \in {"CRITICAL", "HIGH", "MEDIUM-HIGH", "MEDIUM", "LOW-MEDIUM", "LOW"}

OthersValid ==
    /\ Trim(rule.title) # ""
    /\ Trim(rule.explanation) # ""
    /\ NoExamplesError

AllLevelsListed == "CRITICAL, HIGH, MEDIUM-HIGH, MEDIUM, LOW-MEDIUM, LOW"

OneImpactError(value) ==
    /\ Len(errors) = 1
    /\ Includes(errors[1].message, value)
    /\ Includes(errors[1].message, AllLevelsListed)
    /\ \A k \in 1..Len(VALID_IMPACTS) : Includes(errors[1].message, VALID_IMPACTS[k])

\* C6 as stated: a frontmatter impact outside the six levels, in an otherwise valid
\* rule, gives exactly one error, which names the value and lists the six levels.
C6_AsStated ==
    Validated /\ FmDefines("impact") /\ ~IsLevel(FmValue("impact")) /\ OthersValid
        => OneImpactError(FmValue("impact"))

\* C6 as amended: the same, for a non-empty frontmatter impact.
C6_InvalidImpactReported ==
    /\ Validated
    /\ Truthy(FmGet(Fm, "impact"))
    /\ ~IsLevel(FmValue("impact"))
    /\ OthersValid
    => OneImpactError(FmValue("impact"))

C6_Witness ==
    /\ Validated
    /\ Truthy(FmGet(Fm, "impact"))
    /\ FmValue("impact") = "UNKNOWN_LEVEL"
    /\ OthersValid
    /\ OneImpactError("UNKNOWN_LEVEL")

\* the check a message comes from: 1 title, 2 explanation, 3 examples, 4 impact
CheckOf(msg) ==
    IF msg = MsgMissingTitle THEN 1
    ELSE IF msg = MsgMissingExplanation THEN 2
    ELSE IF IsExamplesMessage(msg) THEN 3
    ELSE IF StartsWith(msg, "Invalid impact level: ") THEN 4
    ELSE 0

FromCheck(n) == \E k \in 1..Len(errors) : CheckOf(errors[k].message) = n

HasAcceptedExample ==
    \E k \in 1..Len(rule.examples) :
        /\ Trim(rule.examples[k].code) # ""
        /\ IsIncorrectLabel(rule.examples[k]) \/ IsCorrectLabel(rule.examples[k])

\* C9: every check reports by its own condition alone, whatever the other checks
\* found; each reports at most once; the errors of a file come in the order title,
\* explanation, examples, impact.
C9_AllChecksInOrder ==
    Validated =>
        /\ \A k \in 1..Len(errors) :
              CheckOf(errors[k].message) \in 1..4 /\ errors[k].file = RuleFileName
        /\ \A j, k \in 1..Len(errors) :
              j < k => CheckOf(errors[j].message) < CheckOf(errors[k].message)
        /\ FromCheck(1) <=> Trim(rule.title) = ""
        /\ FromCheck(2) <=> Trim(rule.explanation) = ""
        /\ FromCheck(3) <=> ~HasAcceptedExample
        /\ FromCheck(4) <=> ~IsLevel(rule.impact)

C9_Witness == Validated /\ Len(errors) = 4

NoFrontmatterBlock(text) == ~StartsWith(text, "---") \/ ~Includes(SliceFrom(text, 3), "---")

IsSecondLevelHeading(line) ==
    /\ Len(line) >= 2
    /\ CharAt(line, 1) = "#"
    /\ CharAt(line, 2) = "#"
    /\ Len(line) >= 3 => CharAt(line, 3) # "#"

SecondLevelHeadings(lines) == {i \in 1..Len(lines) : IsSecondLevelHeading(lines[i])}

\* C10: without frontmatter, the title is the text of the first second-level
\* heading of the body, its two markers and the surrounding whitespace removed;
\* neither a deeper heading before it nor a second-level heading after it counts.
C10_TitleIsFirstHeading ==
    Parsed /\ NoFrontmatterBlock(Text) /\ SecondLevelHeadings(Body) # {} =>
        LET first == Body[Min(SecondLevelHeadings(Body))]
        IN  rule.title = Trim(SubSeq(first, 3, Len(first)))

\* a body with a third-level heading first and two second-level headings, the
\* first of them padded with whitespace
C10_Witness ==
    /\ Parsed
    /\ NoFrontmatterBlock(Text)
    /\ Cardinality(SecondLevelHeadings(Body)) = 2
    /\ Min(SecondLevelHeadings(Body)) > 1
    /\ StartsWith(Body[1], "###")
    /\ rule.title = "Rule A"
    /\ Body[Max(SecondLevelHeadings(Body))] = "## Rule B"

(***************************************************************************)
(* The body as the line loop reads it                                      *)
(***************************************************************************)
\* the 1-based index of the first body line the loop looks at
FirstLoopLine(lines) == TitleLine(lines) + 2

HasTitleHeading(lines) == \E i \in 1..Len(lines) : IsSecondLevelHeading(lines[i])

\* a line the loop reads as a fence: it starts with the marker and is not taken for
\* an Impact line
IsFenceMarked(line) == Kind(line) = "fence"

\* the fence lines the loop meets
FenceSet(lines) == {j \in FirstLoopLine(lines)..Len(lines) : IsFenceMarked(lines[j])}

\* line i lies between an opening fence and its closing fence (or the end of
\* input), F being the fence lines
Between(F, i) == Cardinality({j \in F : j < i}) % 2 = 1

\* line i lies between an opening fence and its closing fence (or the end of input)
InsideFence(lines, i) == Between(FenceSet(lines), i)

\* the lines that open an example: label lines outside a code block
LabelLines(lines) ==
    LET F == FenceSet(lines) IN {i \in After(lines, "label") : ~Between(F, i)}

\* the Reference:/References: lines outside a code block
ReferenceLines(lines) ==
    LET F == FenceSet(lines) IN {i \in After(lines, "reference") : ~Between(F, i)}

IsProse(line) == Kind(line) = "text" /\ Trim(line) # "" /\ ~StartsWith(line, "#")

\* the prose lines outside a code block among the lines from..to
ProseLines(lines, from, to) ==
    LET F == FenceSet(lines) IN {i \in from..to : IsProse(lines[i]) /\ ~Between(F, i)}

\* the lines of the index set P, in document order
LinesAt(lines, P) == [k \in 1..Cardinality(P) |-> lines[Sorted(P)[k]]]

\* the last line before the first example label (the last line when there is none)
BeforeFirstLabel(lines) ==
    IF LabelLines(lines) = {} THEN Len(lines) ELSE Min(LabelLines(lines)) - 1

\* C11: a file with a title heading, no explanation in its frontmatter and no prose
\* line between the title heading and the first example label is reported as
\* "Missing or empty explanation".
C11_NoProseNoExplanation ==
    /\ Validated
    /\ HasTitleHeading(Body)
    /\ ~Truthy(FmGet(Fm, "explanation"))
    /\ ProseLines(Body, FirstLoopLine(Body), BeforeFirstLabel(Body)) = {}
    => Reports(MsgMissingExplanation)

\* C18: without an explanation in the frontmatter, the explanation is the prose
\* lines after the title line and before the first example label, joined by a
\* blank line; no later line reaches it.
C18_ExplanationBeforeFirstLabel ==
    Parsed /\ ~Truthy(FmGet(Fm, "explanation")) =>
        rule.explanation =
            Trim(Join(LinesAt(Body, ProseLines(Body, FirstLoopLine(Body),
                                               BeforeFirstLabel(Body))), "\n\n"))

\* the labels the examples of the label lines get, in document order
LabelsOf(lines) ==
    [k \in 1..Cardinality(LabelLines(lines)) |-> LabelOf(lines[Sorted(LabelLines(lines))[k]])]

ExampleLabels == [k \in 1..Len(rule.examples) |-> rule.examples[k].label]

RECURSIVE LinkTargets(_)
LinkTargets(refLines) ==
    IF Len(refLines) = 0 THEN <<>>
    ELSE RefUrls(refLines[1], 1) \o LinkTargets(Tail(refLines))

\* a Reference line follows the last example label
ReferenceClosesLast(lines) ==
    /\ LabelLines(lines) # {}
    /\ \E r \in ReferenceLines(lines) : r > Max(LabelLines(lines))

\* C12: when a Reference line follows the last example, the examples are the
\* labelled examples, each once and in order, with no extra one, and (unless the
\* frontmatter gives references) the links of the Reference lines are the references.
C12_ReferenceClosesOnce ==
    Parsed /\ ReferenceClosesLast(Body) =>
        /\ ExampleLabels = LabelsOf(Body)
        /\ ~Truthy(FmGet(Fm, "references")) =>
              LET urls == LinkTargets(LinesAt(Body, ReferenceLines(Body)))
              IN  rule.references = IF urls = <<>> THEN Undefined ELSE Some(urls)

\* two examples closed by a trailing Reference line
C12_Witness ==
    /\ Parsed
    /\ ReferenceClosesLast(Body)
    /\ Max(ReferenceLines(Body)) = Len(Body)
    /\ Len(rule.examples) = 2
    /\ rule.examples[2].code = "y"
    /\ rule.references = Some(<<"https://e.com/d">>)

IsOptional(o) == o = Undefined \/ (Len(o) = 1 /\ o[1] \in STRING)

IsCodeExample(e) ==
    /\ DOMAIN e = {"label", "description", "code", "language", "additionalText"}
    /\ e.label \in STRING
    /\ e.code \in STRING
    /\ e.language \in STRING
    /\ IsOptional(e.description)
    /\ IsOptional(e.additionalText)

IsOptionalList(o) ==
    o = Undefined \/ (Len(o) = 1 /\ \A k \in 1..Len(o[1]) : o[1][k] \in STRING)

IsRule(r) ==
    /\ DOMAIN r = {"title", "impact", "impactDescription", "explanation", "examples",
                   "references", "tags"}
    /\ r.title \in STRING
    /\ r.impact \in STRING
    /\ r.explanation \in STRING
    /\ IsOptional(r.impactDescription)
    /\ \A k \in 1..Len(r.examples) : IsCodeExample(r.examples[k])
    /\ IsOptionalList(r.references)
    /\ IsOptionalList(r.tags)

UnclosedFrontmatter(text) == StartsWith(text, "---") /\ ~Includes(SliceFrom(text, 3), "---")

UnclosedFence(lines) == InsideFence(lines, Len(lines) + 1)

\* C13: whatever the text, well-formed or not, the result of the parse step is a
\* Rule: every field is there with a value of its type, with the empty title when
\* nothing gives a title, the MEDIUM default when nothing gives an impact and no
\* examples when there is no label.
C13_ParserIsTotal ==
    Parsed =>
        LET body == Body
            fm == Fm
        IN  /\ IsRule(rule)
            /\ ~Truthy(FmGet(fm, "title")) /\ ~HasTitleHeading(body) => rule.title = ""
            /\ ~Truthy(FmGet(fm, "impact")) /\ After(body, "impact") = {} =>
                  rule.impact = "MEDIUM"
            /\ LabelLines(body) = {} => rule.examples = <<>>

\* a text with an unclosed frontmatter, no heading and an unclosed fence
C13_Witness ==
    /\ Parsed
    /\ UnclosedFrontmatter(Text)
    /\ UnclosedFence(Body)
    /\ ~HasTitleHeading(Body)
    /\ rule.title = ""
    /\ rule.impact = "MEDIUM"

(***************************************************************************)
(* Properties of the run: the files examined, termination (Spec, FairSpec) *)
(***************************************************************************)
IsCandidate(name) ==
    /\ Len(name) >= 3
    /\ SubSeq(name, Len(name) - 2, Len(name)) = ".md"
    /\ SubSeq(name, 1, 1) # "_"

Candidates(listing) == SelectSeq(listing, IsCandidate)

\* the paths of the first n candidate files of the current listing
CandidatePaths(n) ==
    [k \in 1..n |-> "skills/" \o SKILLS[skillIdx] \o "/rules/" \o Candidates(files)[k]]

\* the last n elements of a sequence
LastOf(seq, n) == SubSeq(seq, Len(seq) - n + 1, Len(seq))

ErrorsOfEntry(name) ==
    {k \in 1..Len(allErrors) : EndsWith(allErrors[k].file, "/" \o name)}

\* C15: of the entries of a listing exactly those ending in ".md" and not starting
\* with "_" are examined, in listing order, and counted; no other entry is read,
\* counted or named in an error.
C15_OnlyCandidatesExamined ==
    /\ ruleFiles = Candidates(files)
    /\ totalFiles = Len(reads) + Len(Candidates(files)) - (fileIdx - 1)
    /\ skillIdx >= 1 /\ ~DirFailed =>
        /\ fileIdx - 1 <= Len(Candidates(files))
        /\ Len(reads) >= fileIdx - 1
        /\ LastOf(reads, fileIdx - 1) = CandidatePaths(fileIdx - 1)
    /\ \A k \in 1..Len(files) :
          ~IsCandidate(files[k]) =>
              /\ ErrorsOfEntry(files[k]) = {}
              /\ \A r \in 1..Len(reads) : ~EndsWith(reads[r], "/" \o files[k])
    /\ pc = "done" /\ ~DirFailed => Len(reads) = totalFiles

\* a listing with an ignored entry before a candidate, the candidate examined
C15_Witness ==
    /\ pc = "done"
    /\ ~DirFailed
    /\ files = <<"_draft.md", "a.md">>
    /\ reads[Len(reads)] = "skills/second-skill/rules/a.md"
    /\ totalFiles = 3

Distinct(seq) == \A i, j \in 1..Len(seq) : i # j => seq[i] # seq[j]

Summarised ==
    \/ stdout # <<>> /\ stdout[Len(stdout)] = SuccessLine(totalFiles)
    \/ \E k \in 1..Len(stderr) : stderr[k] = FailureHeading
    \/ DirFailed

\* C16: every run ends: it reaches a final exit status with the summary, the failure
\* listing or the listing error printed, and when no listing failed every candidate
\* file of every skill was examined exactly once.
C16_RunTerminates ==
    /\ <>(pc = "done" /\ exitCode \in {0, 1} /\ Summarised)
    /\ [](pc = "done" /\ ~DirFailed =>
            /\ skillIdx = Len(SKILLS)
            /\ FilesDone
            /\ Len(reads) = totalFiles
            /\ Distinct(reads))

\* a run over two skills with two candidate files each
C16_Witness ==
    /\ pc = "done"
    /\ ~DirFailed
    /\ Summarised
    /\ Len(reads) = 4
    /\ Distinct(reads)
    /\ exitCode = 0

(***************************************************************************)
(* Properties of the line loop: code blocks, trailing prose, Impact lines  *)
(***************************************************************************)
\* the fence lines the loop meets, in document order
FenceLines(lines) == Sorted(FenceSet(lines))

\* the label line whose example is open at line i, 0 when no example is open, L
\* being the label lines and R the Reference lines
OwnerAmong(L, R, i) ==
    LET open == {l \in L : l < i /\ ~\E r \in R : l < r /\ r < i}
    IN  IF open = {} THEN 0 ELSE Max(open)

\* the label line whose example is open at line i of the body, 0 when none is
OwnerOf(lines, i) == OwnerAmong(LabelLines(lines), ReferenceLines(lines), i)

\* the index in examples of the example a label line opens
ExampleOf(lines, l) == Cardinality({x \in LabelLines(lines) : x <= l})

\* the m-th code block is the last closed one of an open example
IsLastBlockOfExample(lines, m) ==
    LET F == FenceLines(lines)
        owner == OwnerOf(lines, F[2 * m - 1])
    IN  /\ owner # 0
        /\ \A n \in (m + 1)..(Len(F) \div 2) : OwnerOf(lines, F[2 * n - 1]) # owner

\* the impact the lines outside code blocks give: the level of the last Impact
\* line that names one, MEDIUM when there is none
ImpactOutsideCode(lines) ==
    LET named == {i \in After(lines, "impact") :
                     ~InsideFence(lines, i) /\ IsDefined(ImpactMatch(lines[i]))}
    IN  IF named = {} THEN "MEDIUM"
        ELSE ToUpperCase(ValueOf(ImpactMatch(lines[Max(named)])).level)

\* C17: the code of an example is, line for line, what stands between the opening
\* and the closing fence of its block, whatever the lines look like, and a line
\* inside a block changes nothing else: the impact is the one the lines outside
\* the blocks give.
C17_CodeVerbatim ==
    Parsed =>
        /\ \A m \in 1..(Len(FenceLines(Body)) \div 2) :
              IsLastBlockOfExample(Body, m) =>
                  rule.examples[ExampleOf(Body, OwnerOf(Body, FenceLines(Body)[2 * m - 1]))].code
                    = Join(SubSeq(Body, FenceLines(Body)[2 * m - 1] + 1,
                                        FenceLines(Body)[2 * m] - 1), "\n")
        /\ ~Truthy(FmGet(Fm, "impact")) => rule.impact = ImpactOutsideCode(Body)

\* the last line of the part of the body that belongs to the example of label line l
SegmentEnd(lines, l) ==
    LET next == {i \in LabelLines(lines) \cup ReferenceLines(lines) : i > l}
    IN  IF next = {} THEN Len(lines) ELSE Min(next) - 1

\* the prose of the example of label line l, as additionalText holds it
ProseOf(lines, l) ==
    LET P == ProseLines(lines, l + 1, SegmentEnd(lines, l))
    IN  IF P = {} THEN Undefined ELSE Some(Join(LinesAt(lines, P), "\n\n"))

\* the prose lines of the example of label line l that follow a closed code block
ProseAfterBlock(lines, l) ==
    {i \in ProseLines(lines, l + 1, SegmentEnd(lines, l)) :
        \E j \in (l + 1)..(i - 1) : IsFenceMarked(lines[j])}

\* C19: the prose lines outside code blocks between an example's label and the next
\* label, Reference line or end of input, the lines after its code block among
\* them, are that example's additionalText, joined by a blank line, and the
\* additionalText of no other example.
C19_ProseStaysWithExample ==
    Parsed =>
        LET body == Body
            L == LabelLines(body)
        IN  /\ Len(rule.examples) = Cardinality(L)
            /\ \A l \in L :
                  rule.examples[ExampleOf(body, l)].additionalText = ProseOf(body, l)

\* two examples, the first with two prose lines after its code block, the second
\* with none
C19_Witness ==
    /\ Parsed
    /\ Len(rule.examples) = 2
    /\ Cardinality(ProseAfterBlock(Body, Min(LabelLines(Body)))) = 2
    /\ EndsWith(ValueOf(rule.examples[1].additionalText), "After one.\n\nAfter two.")
    /\ rule.examples[2].additionalText = Undefined

ImpactMarker == "**Impact:"

\* the lines among the index set I that carry the marker and name a level behind it
NamingImpact(lines, I) ==
    {i \in I : Includes(lines[i], ImpactMarker) /\ IsDefined(ImpactMatch(lines[i]))}

\* the Rule has the level and the parenthetical of line i
ImpactTakenFrom(line) ==
    /\ rule.impact = ToUpperCase(ValueOf(ImpactMatch(line)).level)
    /\ rule.impactDescription = ValueOf(ImpactMatch(line)).description

MarkerStored ==
    \/ ~Truthy(FmGet(Fm, "explanation")) /\ Includes(rule.explanation, ImpactMarker)
    \/ \E k \in 1..Len(rule.examples) :
          \/ Includes(rule.examples[k].code, ImpactMarker)
          \/ /\ IsDefined(rule.examples[k].additionalText)
             /\ Includes(ValueOf(rule.examples[k].additionalText), ImpactMarker)

\* C20 as stated: the Rule has the impact and the parenthetical of the (last) body
\* line that carries the Impact marker, and no such line is stored as explanation,
\* code or additionalText.
C20_AsStated ==
    Parsed /\ NamingImpact(Body, 1..Len(Body)) # {} =>
        /\ ImpactTakenFrom(Body[Max(NamingImpact(Body, 1..Len(Body)))])
        /\ ~MarkerStored

\* C20 as amended: the same for the Impact lines the loop reads (those after the
\* title line, or after the first body line when there is no title heading), the
\* impact and the parenthetical each unless the frontmatter gives a non-empty one.
C20_ImpactLineSetsImpact ==
    Parsed /\ Includes(content, ImpactMarker) =>
        LET body == Body
            fm == Fm
            named == NamingImpact(body, FirstLoopLine(body)..Len(body))
        IN  /\ ~MarkerStored
            /\ named # {} =>
                  LET m == ValueOf(ImpactMatch(body[Max(named)]))
                  IN  /\ ~Truthy(FmGet(fm, "impact")) => rule.impact = ToUpperCase(m.level)
                      /\ ~Truthy(FmGet(fm, "impactDescription")) =>
                            rule.impactDescription = m.description

\* an Impact line after the title heading and outside every code block, in a file
\* with prose and an example: it sets the impact and its parenthetical and is stored
\* nowhere else
C20_Witness ==
    /\ Parsed
    /\ HasTitleHeading(Body)
    /\ \E i \in NamingImpact(Body, FirstLoopLine(Body)..Len(Body)) : ~InsideFence(Body, i)
    /\ rule.impact = "LOW-MEDIUM"
    /\ rule.impactDescription = Some("minor")
    /\ rule.explanation # ""
    /\ Len(rule.examples) >= 1
    /\ ~MarkerStored

(***************************************************************************)
(* Properties of examples, labels, frontmatter and references              *)
(***************************************************************************)
\* no fence line stands between label line l and the end of its example
NoBlockUnder(lines, l) ==
    \A j \in (l + 1)..SegmentEnd(lines, l) : ~IsFenceMarked(lines[j])

AllCodeEmpty == \A k \in 1..Len(rule.examples) : rule.examples[k].code = ""

\* C21: every label line with no fenced code block before the next label, Reference
\* line or end of input has its CodeExample, with empty code; and a Rule that has
\* examples, all of them with empty code, is reported as "Missing code examples".
C21_LabelWithoutBlock ==
    /\ Parsed =>
          LET body == Body
          IN  \A l \in LabelLines(body) :
                 NoBlockUnder(body, l) =>
                    /\ ExampleOf(body, l) <= Len(rule.examples)
                    /\ rule.examples[ExampleOf(body, l)].label = LabelOf(body[l])
                    /\ rule.examples[ExampleOf(body, l)].code = ""
    /\ Validated /\ rule.examples # <<>> /\ AllCodeEmpty => Reports(MsgMissingCode)

\* a file with a title heading whose only label has no code block: one example with
\* empty code, reported
C21_Witness ==
    /\ Validated
    /\ HasTitleHeading(Body)
    /\ Cardinality(LabelLines(Body)) = 1
    /\ NoBlockUnder(Body, Min(LabelLines(Body)))
    /\ Len(rule.examples) = 1
    /\ rule.examples[1].code = ""
    /\ Reports(MsgMissingCode)

\* the words one of which the label of an example with code must contain
LabelWords ==
    {"incorrect", "wrong", "bad", "correct", "good", "usage", "implementation", "example"}

\* the examples of the Rule that have non-blank code
WithCode == {k \in 1..Len(rule.examples) : Trim(rule.examples[k].code) # ""}

HasLabelWord(k) == \E w \in LabelWords : Includes(ToLowerCase(rule.examples[k].label), w)

\* the examples errors reported, in order
ExamplesErrors == SelectSeq(Messages, IsExamplesMessage)

RECURSIVE LoopStatesFrom(_, _, _)
LoopStatesFrom(st, lines, i) ==
    IF i > Len(lines) THEN <<st>>
    ELSE <<st>> \o LoopStatesFrom(LineStep(st, lines[i]), lines, i + 1)

LoopStates(lines) == LoopStatesFrom(LoopInit, lines, FirstLoopLine(lines))

\* the line the k-th iteration of the loop reads
LoopLine(lines, k) == lines[FirstLoopLine(lines) + k - 1]

\* C23: whenever the loop is inside a code block and reads a line that starts with
\* the fence marker, whatever follows the marker, the block ends with that line: the
\* loop is outside the block afterwards, the open example has the accumulated lines
\* as its code, and the next line is read as body text, not as code.
C23_FirstFenceCloses ==
    Parsed =>
        LET body == Body
            S == LoopStates(body)
        IN  \A k \in 1..(Len(S) - 1) :
               S[k].inCodeBlock /\ StartsWith(LoopLine(body, k), FENCE) =>
                  /\ ~S[k + 1].inCodeBlock
                  /\ S[k + 1].afterCodeBlock
                  /\ IsDefined(S[k].currentExample) =>
                        ValueOf(S[k + 1].currentExample).code
                            = Join(S[k].codeBlockContent, "\n")
                  /\ k + 2 <= Len(S) => S[k + 2].codeBlockContent = <<>>

IsPrefix(s, t) == Len(s) <= Len(t) /\ SubSeq(t, 1, Len(s)) = s

\* the examples pushed so far, plus one when an example is open
ExamplesSoFar(st) == Len(st.examples) + (IF IsDefined(st.currentExample) THEN 1 ELSE 0)

\* C24: at every step of the line loop the pushed examples, plus one if an example
\* is open, are as many as the label lines outside code blocks read so far, and each
\* step leaves the pushed examples as they are or appends to them; the examples of
\* the Rule are those of the label lines, one each, in document order.
C24_OneExamplePerLabel ==
    Parsed =>
        LET body == Body
            S == LoopStates(body)
            L == LabelLines(body)
            first == FirstLoopLine(body)
        IN  /\ \A k \in 1..Len(S) :
                  ExamplesSoFar(S[k]) = Cardinality({l \in L : l < first + k - 1})
            /\ \A k \in 1..(Len(S) - 1) : IsPrefix(S[k].examples, S[k + 1].examples)
            /\ IsPrefix(S[Len(S)].examples, rule.examples)
            /\ ExampleLabels = LabelsOf(body)

\* two label lines outside code blocks, the first example closed by the second
\* label: two examples, in document order
C24_Witness ==
    /\ Parsed
    /\ Cardinality(LabelLines(Body)) = 2
    /\ ReferenceLines(Body) = {}
    /\ Len(LoopStates(Body)[Len(LoopStates(Body))].examples) = 1
    /\ ExampleLabels = <<"Incorrect", "Correct">>

\* the text of a label line between the leading "**" and the colon, trimmed
FullLabel(line) == Trim(ValueOf(LabelMatch(line)))

\* the position of the last opening parenthesis of t, 0 when it has none
LastOpen(t) ==
    LET opens == {i \in 1..Len(t) : CharAt(t, i) = "("}
    IN  IF opens = {} THEN 0 ELSE Max(opens)

HasTrailingParenthetical(t) == EndsWith(t, ")") /\ LastOpen(t) > 0

BeforeParenthetical(t) == SubSeq(t, 1, LastOpen(t) - 1)
InParentheses(t) == SubSeq(t, LastOpen(t) + 1, Len(t) - 1)

\* t is words of letters followed by one non-empty parenthetical without parentheses
\* inside
WordsThenParenthetical(t) ==
    /\ HasTrailingParenthetical(t)
    /\ LET head == BeforeParenthetical(t)
           inner == InParentheses(t)
       IN  /\ Len(head) >= 1
           /\ IsLetter(CharAt(head, 1))
           /\ \A i \in 1..Len(head) : IsLetter(CharAt(head, i)) \/ IsSpace(CharAt(head, i))
           /\ Len(inner) >= 1
           /\ \A i \in 1..Len(inner) : CharAt(inner, i) \notin {"(", ")"}

\* the example of label line l has the text before the trailing parenthetical as its
\* label and the text inside it as its description, both trimmed
SplitOnParenthetical(lines, l) ==
    LET t == FullLabel(lines[l])
        e == rule.examples[ExampleOf(lines, l)]
    IN  /\ e.label = Trim(BeforeParenthetical(t))
        /\ e.description = Some(Trim(InParentheses(t)))

\* the example of label line l has the whole text as its label and no description
WholeLabel(lines, l) ==
    LET e == rule.examples[ExampleOf(lines, l)]
    IN  e.label = FullLabel(lines[l]) /\ e.description = Undefined

\* C25 as stated: every label line whose text ends with a parenthetical gives its
\* example the text inside the parentheses as description and the text before it as
\* label; every other label line gives the whole text as label and no description.
C25_AsStated ==
    Parsed =>
        LET body == Body
        IN  \A l \in LabelLines(body) :
               IF HasTrailingParenthetical(FullLabel(body[l]))
               THEN SplitOnParenthetical(body, l)
               ELSE WholeLabel(body, l)

\* C25 as amended: the label is split when the text is words of letters followed by
\* one non-empty parenthetical without parentheses inside; every other label line,
\* one that ends with a parenthetical after other characters included, gives the
\* whole text as label and no description.
C25_LabelAndDescription ==
    Parsed =>
        LET body == Body
        IN  \A l \in LabelLines(body) :
               IF WordsThenParenthetical(FullLabel(body[l]))
               THEN SplitOnParenthetical(body, l)
               ELSE WholeLabel(body, l)

\* four examples: a parenthetical after a digit kept in the label, a parenthetical
\* after two words split off, a label without parenthetical, and a parenthetical
\* with parentheses inside kept in the label
C25_Witness ==
    /\ Parsed
    /\ Len(rule.examples) = 4
    /\ rule.examples[4].label = "Good (a (b))"
    /\ rule.examples[4].description = Undefined
    /\ rule.examples[1].label = "Step 2 (setup)"
    /\ rule.examples[1].description = Undefined
    /\ rule.examples[2].label = "Bad usage"
    /\ rule.examples[2].description = Some("two  words")
    /\ rule.examples[3].label = "Plain"
    /\ rule.examples[3].description = Undefined

\* the lines of the frontmatter block, none when the text has no block
FmBlockLines ==
    IF FrontmatterEnd(Text) = -1 THEN <<>>
    ELSE Split(Trim(Slice(Text, 3, FrontmatterEnd(Text))), "\n")

\* the position of the first colon of a line, 0 when it has none
FirstColon(line) ==
    LET colons == {i \in 1..Len(line) : CharAt(line, i) = ":"}
    IN  IF colons = {} THEN 0 ELSE Min(colons)

\* v without one leading and one trailing quote character
Unquoted(v) ==
    LET lead == IF Len(v) >= 1 /\ CharAt(v, 1) \in {"\"", "'"} THEN 1 ELSE 0
        trail == IF Len(v) - lead >= 1 /\ CharAt(v, Len(v)) \in {"\"", "'"} THEN 1 ELSE 0
    IN  SubSeq(v, 1 + lead, Len(v) - trail)

\* the assignment a key: value line makes: the trimmed text before the first colon
\* and the trimmed, unquoted text after it
KeyValue(line) ==
    [key |-> Trim(SubSeq(line, 1, FirstColon(line) - 1)),
     value |-> Unquoted(Trim(SubSeq(line, FirstColon(line) + 1, Len(line))))]

\* the assignments of the lines at the indices I, in order
KeyValues(lines, I) == [k \in 1..Cardinality(I) |-> KeyValue(lines[Sorted(I)[k]])]

\* the Rule has the last non-empty value the assignments give its title and impact
TitleAndImpactFrom(assignments) ==
    /\ Truthy(FmGet(assignments, "title")) =>
          rule.title = ValueOf(FmGet(assignments, "title"))
    /\ Truthy(FmGet(assignments, "impact")) =>
          rule.impact = ValueOf(FmGet(assignments, "impact"))

\* C26 as stated: the frontmatter holds one assignment for every line of the block
\* that has a colon, and nothing for the others.
C26_AsStated ==
    Parsed =>
        LET lines == FmBlockLines
        IN  Fm = KeyValues(lines, {i \in 1..Len(lines) : FirstColon(lines[i]) > 0})

\* C26 as amended: the frontmatter holds one assignment for every line of the block
\* that has text before its first colon, and nothing for the others; the Rule's title
\* and impact are the non-empty values these assignments give them.
C26_FlatKeyValueLines ==
    Parsed =>
        LET lines == FmBlockLines
            assigned == KeyValues(lines, {i \in 1..Len(lines) : FirstColon(lines[i]) > 1})
        IN  /\ Fm = assigned
            /\ TitleAndImpactFrom(assigned)

\* a block with a line without colon, a line without key, a quoted value with a
\* colon, a value with a lone quote and a URL
C26_Witness ==
    /\ Parsed
    /\ Len(FmBlockLines) = 5
    /\ Len(Fm) = 3
    /\ rule.title = "Quoted: with colon"
    /\ rule.impact = "LOW"
    /\ FmGet(Fm, "url") = Some("https://x.io/a:b")

Delimiter == "---"

\* the 1-based positions behind the opening delimiter where a delimiter stands
ClosingDelimiters(text) ==
    {i \in 4..(Len(text) - 2) : SubSeq(text, i, i + 2) = Delimiter}

HasFrontmatterBlock(text) == StartsWith(text, Delimiter) /\ ClosingDelimiters(text) # {}

\* the text behind the first closing delimiter, the entire text when there is no block
AfterFrontmatter(text) ==
    IF HasFrontmatterBlock(text)
    THEN SubSeq(text, Min(ClosingDelimiters(text)) + 3, Len(text))
    ELSE text

\* the text between the delimiters
BetweenDelimiters(text) == SubSeq(text, 4, Min(ClosingDelimiters(text)) - 1)

\* C27 as stated: without a frontmatter block the frontmatter is empty; the body is
\* exactly the text behind the closing delimiter, the entire text without a block.
C27_AsStated ==
    Parsed =>
        /\ ~HasFrontmatterBlock(Text) => Fm = <<>>
        /\ Body = Split(AfterFrontmatter(Text), "\n")

\* C27 as amended: the body is that text with the white space around it trimmed; the
\* frontmatter assignments are those of the lines between the delimiters; without a
\* block the Rule takes title and tags from the body alone.
C27_BodyAfterFrontmatter ==
    Parsed =>
        LET text == Text
            body == Split(Trim(AfterFrontmatter(text)), "\n")
        IN  /\ Body = body
            /\ IF HasFrontmatterBlock(text)
               THEN Fm = FrontmatterLines(Split(Trim(BetweenDelimiters(text)), "\n"))
               ELSE /\ Fm = <<>>
                    /\ rule.title = BodyTitle(body)
                    /\ rule.tags = Undefined

\* a frontmatter block followed by a line break and the body: the body starts at the
\* heading, and the frontmatter gives the tags
C27_Witness ==
    /\ Parsed
    /\ HasFrontmatterBlock(Text)
    /\ StartsWith(AfterFrontmatter(Text), "\n")
    /\ Body[1] = "## Rule B"
    /\ rule.tags = Some(<<"a", "b">>)

\* the references of the Rule, none when the field is absent
References == IF IsDefined(rule.references) THEN ValueOf(rule.references) ELSE <<>>

\* the link targets of the Reference lines outside code blocks, in document order
LinkedUrls(lines) == LinkTargets(LinesAt(lines, ReferenceLines(lines)))

\* C28: without references in the frontmatter, the references of the Rule hold the
\* URL of every link of every Reference line, in document order, and no URL twice.
C28_ReferencesAreASet ==
    Parsed /\ ~Truthy(FmGet(Fm, "references")) =>
        LET urls == LinkedUrls(Body)
        IN  /\ {References[k] : k \in 1..Len(References)} = {urls[k] : k \in 1..Len(urls)}
            /\ \A i, j \in 1..Len(References) :
                  i < j =>
                     \E a, b \in 1..Len(urls) :
                        a < b /\ urls[a] = References[i] /\ urls[b] = References[j]
            /\ Distinct(References)

(***************************************************************************)
(* Properties of the run: the order of the collected errors (Spec)         *)
(***************************************************************************)
\* the position in SKILLS of the skill an error's file belongs to
SkillOf(e) == CHOOSE k \in 1..Len(SKILLS) : StartsWith(e.file, SKILLS[k] \o "/")

\* the position in the listing of the file an error names
ListedAt(e) ==
    CHOOSE p \in 1..Len(files) : e.file = SKILLS[SkillOf(e)] \o "/" \o files[p]

\* the skill whose listing files holds
ListedSkill == IF DirFailed THEN skillIdx - 1 ELSE skillIdx

\* error a stands before error b by skill, then by listing position, then by check
Before(a, b) ==
    \/ SkillOf(a) < SkillOf(b)
    \/ /\ SkillOf(a) = SkillOf(b)
       /\ a.file = b.file
       /\ CheckOf(a.message) < CheckOf(b.message)
    \/ /\ SkillOf(a) = SkillOf(b)
       /\ a.file # b.file
       /\ SkillOf(a) = ListedSkill => ListedAt(a) < ListedAt(b)

ErrorsInOrder == \A i, j \in 1..Len(allErrors) : i < j => Before(allErrors[i], allErrors[j])

\* a step of the run: the collected errors only grow at the end; errors are added
\* only by the step that reads the next file of the current listing, under that
\* file's name and in check order; the skills and the files of a listing are taken
\* in order
SequentialStep ==
    /\ IsPrefix(allErrors, allErrors')
    /\ skillIdx' >= skillIdx
    /\ skillIdx' = skillIdx => ruleFiles' = ruleFiles /\ fileIdx' >= fileIdx
    /\ reads' # reads =>
          /\ reads' = Append(reads, JoinPath(RulesDir(SKILLS[skillIdx]), ruleFiles[fileIdx]))
          /\ skillIdx' = skillIdx
          /\ fileIdx' = fileIdx + 1
    /\ \A k \in (Len(allErrors) + 1)..Len(allErrors') :
          /\ reads' # reads
          /\ allErrors'[k].file = SKILLS[skillIdx] \o "/" \o ruleFiles[fileIdx]
          /\ k > Len(allErrors) + 1 =>
                CheckOf(allErrors'[k - 1].message) < CheckOf(allErrors'[k].message)

\* C29: the run is sequential: every step that collects errors is the step of the
\* next file of the current skill and appends that file's errors in check order, so
\* the collected errors are ordered by skill, then by listing position, then by
\* check, and no collected error is ever removed or moved.
C29_ErrorsInProcessingOrder == [][SequentialStep]_vars /\ []ErrorsInOrder

\* errors of two files of the first skill and of a file of the second, the first
\* file with several
C29_Witness ==
    /\ pc = "done"
    /\ Len(allErrors) >= 4
    /\ allErrors[1].file = SKILLS[1] \o "/b.md"
    /\ allErrors[2].file = SKILLS[1] \o "/b.md"
    /\ \E k \in 3..Len(allErrors) : allErrors[k].file = SKILLS[1] \o "/a.md"
    /\ allErrors[Len(allErrors)].file = SKILLS[2] \o "/a.md"

(***************************************************************************)
(* Properties of the impact: where the level comes from                    *)
(***************************************************************************)
\* the impact the frontmatter gives, Undefined when it gives none
GivenImpact == FmGet(Fm, "impact")

\* the level written on the last Impact line the loop reads
WrittenLevel(body) ==
    ValueOf(ImpactMatch(body[Max(NamingImpact(body, FirstLoopLine(body)..Len(body)))])).level

ImpactReported(value) == \E k \in 1..Len(errors) : errors[k].message = MsgInvalidImpact(value)

\* C30: an impact taken from a body Impact line is the written level in upper case,
\* and passes validation when that is one of the six levels, whatever the case it
\* was written in; an impact taken from the frontmatter is the frontmatter's value
\* as given, and is reported as invalid unless it is exactly one of the six levels.
C30_ImpactNormalisedByOrigin ==
    Validated =>
        LET body == Body
            given == GivenImpact
        IN  /\ Truthy(given) =>
                  /\ rule.impact = ValueOf(given)
                  /\ FromCheck(4) <=> ~IsValidImpact(ValueOf(given))
                  /\ ~IsValidImpact(ValueOf(given)) => ImpactReported(ValueOf(given))
            /\ ~Truthy(given) /\ NamingImpact(body, FirstLoopLine(body)..Len(body)) # {} =>
                  /\ rule.impact = ToUpperCase(WrittenLevel(body))
                  /\ IsValidImpact(ToUpperCase(WrittenLevel(body))) => ~FromCheck(4)

\* a level written in lower case on an Impact line under the title heading, outside
\* any code block, no impact in the frontmatter: the Rule has it in upper case and
\* validation accepts it
C30_Witness ==
    /\ Validated
    /\ HasTitleHeading(Body)
    /\ ~Includes(content, FENCE)
    /\ ~Truthy(GivenImpact)
    /\ NamingImpact(Body, FirstLoopLine(Body)..Len(Body)) # {}
    /\ WrittenLevel(Body) = "low-medium"
    /\ rule.impact = "LOW-MEDIUM"
    /\ ~FromCheck(4)

(***************************************************************************)
(* Properties of code blocks that are overwritten, discarded or left open  *)
(***************************************************************************)
\* the language an opening fence line names: line.slice(3).trim() || "typescript"
LanguageOf(line) ==
    IF Trim(SliceFrom(line, 3)) # "" THEN Trim(SliceFrom(line, 3)) ELSE "typescript"

\* the label line whose example is open at the opening fence of each closed code
\* block, 0 when none is
Owners(lines) ==
    LET F == FenceLines(lines)
        L == LabelLines(lines)
        R == ReferenceLines(lines)
    IN  [m \in 1..(Len(F) \div 2) |-> OwnerAmong(L, R, F[2 * m - 1])] \o <<>>

\* the closed code blocks that are the last one of an open example
LastBlocks(O) ==
    {m \in 1..Len(O) : O[m] # 0 /\ \A n \in (m + 1)..Len(O) : O[n] # O[m]}

\* every line of the text fields of the Rule that come from the body's lines
StoredLines ==
    LET texts == {rule.explanation}
                 \cup {rule.examples[k].code : k \in 1..Len(rule.examples)}
                 \cup {ValueOf(rule.examples[k].additionalText) :
                          k \in {x \in 1..Len(rule.examples) :
                                    IsDefined(rule.examples[x].additionalText)}}
        TrimmedLines(t) == LET parts == Split(t, "\n")
                           IN  {Trim(parts[n]) : n \in 1..Len(parts)}
    IN  UNION {TrimmedLines(t) : t \in texts}

\* the non-blank lines among the index set D whose text stands on no line outside D
OnlyIn(lines, D) ==
    LET trimmed == [i \in 1..Len(lines) |-> Trim(lines[i])] \o <<>>
        outside == {trimmed[j] : j \in (1..Len(lines)) \ D}
    IN  {i \in D \cap (1..Len(lines)) : trimmed[i] # "" /\ trimmed[i] \notin outside}

\* no text field of the Rule holds a line that the body has only among the lines D
NowhereInRule(lines, D) ==
    LET stored == StoredLines
    IN  \A i \in OnlyIn(lines, D) : Trim(lines[i]) \notin stored

\* the lines of the closed code blocks of open examples that a later closed block
\* of the same example follows
Overwritten(F, O) ==
    LET last == LastBlocks(O)
    IN  UNION {(F[2 * m - 1] + 1)..(F[2 * m] - 1) :
                  m \in {x \in 1..Len(O) : O[x] # 0 /\ x \notin last}}

\* C31: an example with several closed code blocks has the code (the lines the loop
\* collected) and the language of the last of them, and the lines that stand only
\* in its earlier blocks are in no text field of the Rule.
C31_LastBlockWins ==
    Parsed =>
        LET body == Body
            F == FenceLines(body)
            O == Owners(body)
            L == LabelLines(body)
        IN  /\ \A m \in LastBlocks(O) :
                  LET e == rule.examples[Cardinality({x \in L : x <= O[m]})]
                  IN  /\ e.code = CodeBetween(body, F[2 * m - 1], F[2 * m])
                      /\ e.language = LanguageOf(body[F[2 * m - 1]])
            /\ NowhereInRule(body, Overwritten(F, O))

\* one example with two closed code blocks of different code and language: it has
\* those of the second, and the code of the first is stored nowhere
C31_Witness ==
    /\ Parsed
    /\ HasTitleHeading(Body)
    /\ Len(rule.examples) = 1
    /\ Len(FenceLines(Body)) = 4
    /\ OnlyIn(Body, Overwritten(FenceLines(Body), Owners(Body))) # {}
    /\ Body[FenceLines(Body)[1] + 1] = "bad()"
    /\ LanguageOf(Body[FenceLines(Body)[1]]) = "ts"
    /\ rule.examples[1].code = "extra()"
    /\ rule.examples[1].language = "js"

\* the iterations of the loop that read a line of a code block met while no example
\* is open: its fence lines and the lines between them
DiscardedSteps(S, lines) ==
    {k \in 1..(Len(S) - 1) :
        /\ ~IsDefined(S[k].currentExample)
        /\ S[k].inCodeBlock \/ Kind(LoopLine(lines, k)) = "fence"}

\* the body lines those iterations read
DiscardedLines(S, lines) ==
    LET first == FirstLoopLine(lines)
    IN  {first + k - 1 : k \in DiscardedSteps(S, lines)}

\* C32: reading a line of a code block that is met while no example is open (its
\* fences included) opens no example, pushes none and adds nothing to explanation,
\* additionalText or references; the Rule has one example per label line, and the
\* lines that stand only in such blocks are in no explanation, code or
\* additionalText of the Rule.
C32_BlockWithoutExampleDiscarded ==
    Parsed =>
        LET body == Body
            S == LoopStates(body)
        IN  /\ \A k \in DiscardedSteps(S, body) :
                  /\ S[k + 1].examples = S[k].examples
                  /\ S[k + 1].currentExample = Undefined
                  /\ S[k + 1].explanation = S[k].explanation
                  /\ S[k + 1].additionalText = S[k].additionalText
                  /\ S[k + 1].references = S[k].references
            /\ Len(rule.examples) = Cardinality(LabelLines(body))
            /\ NowhereInRule(body, DiscardedLines(S, body))

\* a code block before the first label and another after the Reference line that
\* closed the only example: one example, with the code of its own block, and the
\* lines of the two blocks stored nowhere
C32_Witness ==
    /\ Parsed
    /\ HasTitleHeading(Body)
    /\ Len(rule.examples) = 1
    /\ rule.examples[1].code = "x"
    /\ \E i, j \in OnlyIn(Body, DiscardedLines(LoopStates(Body), Body)) :
          /\ Body[i] = "early()"
          /\ Body[j] = "late()"
          /\ i < Min(LabelLines(Body))
          /\ j > Max(ReferenceLines(Body))
    /\ rule.explanation = "Why.\n\nTail."

(***************************************************************************)
(* Properties of a body without a title heading                            *)
(***************************************************************************)
\* the body with its first line blanked
WithoutFirstLine(lines) == <<"">> \o Tail(lines)

\* C33: when no body line is a second-level heading the title the body gives is
\* empty and the first body line is not read: the Rule is the one the same file
\* gives with its first body line blanked, and a text that stands only on the
\* first line is in no explanation, code or additionalText of the Rule.
C33_FirstLineSkippedWithoutHeading ==
    Parsed =>
        LET body == Body
            fm == Fm
        IN  ~HasTitleHeading(body) =>
               /\ BodyTitle(body) = ""
               /\ ~Truthy(FmGet(fm, "title")) => rule.title = ""
               /\ rule = ParseBody(fm, WithoutFirstLine(body))
               /\ NowhereInRule(body, {1})

\* a body without title heading whose first line is a label line followed by its
\* code block: the Rule has no example and no title
C33_Witness ==
    /\ Parsed
    /\ ~HasTitleHeading(Body)
    /\ Len(Body) > 1
    /\ Kind(Body[1]) = "label"
    /\ Kind(Body[2]) = "fence"
    /\ OnlyIn(Body, {1}) = {1}
    /\ rule.examples = <<>>
    /\ rule.title = ""

\* the Rule has the examples, the explanation and the references of the body cut
\* after line o
AsIfEndedAt(lines, o) ==
    LET r == ParseBody(Fm, SubSeq(lines, 1, o))
    IN  /\ rule.examples = r.examples
        /\ rule.explanation = r.explanation
        /\ rule.references = r.references

\* C34: when the last fence line the loop reads opens a block (the loop reads the
\* lines after the title line, or after the first body line when there is no title
\* heading), the Rule has the examples, explanation and references of the body that
\* ends with that line, the open example with the code it had before; and the lines
\* that stand only after the opening fence are in no explanation, code or
\* additionalText of the Rule.
C34_OpenBlockDropped ==
    Parsed =>
        LET body == Body
            F == FenceLines(body)
        IN  Len(F) % 2 = 1 =>
               /\ AsIfEndedAt(body, F[Len(F)])
               /\ NowhereInRule(body, (F[Len(F)] + 1)..Len(body))

\* an example with a closed code block and prose, then a fence that stays open
\* before a code line, a label line, a Reference line and a prose line: the example
\* keeps the code of its closed block, and there is no second example and no
\* reference
C34_Witness ==
    /\ Parsed
    /\ HasTitleHeading(Body)
    /\ Len(FenceLines(Body)) = 3
    /\ \E i, j \in (FenceLines(Body)[3] + 1)..Len(Body) :
          Kind(Body[i]) = "label" /\ Kind(Body[j]) = "reference"
    /\ OnlyIn(Body, (FenceLines(Body)[3] + 1)..Len(Body)) # {}
    /\ Len(rule.examples) = 1
    /\ rule.examples[1].code = "x"
    /\ rule.examples[1].language = "typescript"
    /\ rule.examples[1].additionalText = Some("Before.")
    /\ rule.explanation = "Why."
    /\ rule.references = Undefined

(***************************************************************************)
(* Properties of the explanation the frontmatter gives                     *)
(***************************************************************************)
GivenExplanation == FmGet(Fm, "explanation")

\* C35 as stated: a non-empty explanation in the frontmatter is the explanation of
\* the Rule, whatever the body holds, and the explanation check passes.
C35_AsStated ==
    Validated /\ Truthy(GivenExplanation) =>
        /\ rule.explanation = ValueOf(GivenExplanation)
        /\ ~Reports(MsgMissingExplanation)

\* C35 as amended: a non-empty explanation in the frontmatter is the explanation of
\* the Rule, whatever the body holds, and the explanation check passes exactly when
\* that value is not blank.
C35_FrontmatterExplanationWins ==
    Validated =>
        LET given == GivenExplanation
        IN  Truthy(given) =>
               /\ rule.explanation = ValueOf(given)
               /\ Reports(MsgMissingExplanation) <=> Trim(ValueOf(given)) = ""

\* a file with a title heading directly followed by its first label line and with
\* an explanation in the frontmatter: the Rule has that explanation and the
\* explanation check passes
C35_Witness ==
    /\ Validated
    /\ HasTitleHeading(Body)
    /\ LabelLines(Body) # {}
    /\ Min(LabelLines(Body)) = FirstLoopLine(Body)
    /\ GivenExplanation = Some("From frontmatter")
    /\ rule.explanation = "From frontmatter"
    /\ ~Reports(MsgMissingExplanation)

(***************************************************************************)
(* Properties of the run: a listing failure after collected errors (Spec)  *)
(***************************************************************************)
Printed == {stdout[k] : k \in 1..Len(stdout)} \cup {stderr[k] : k \in 1..Len(stderr)}

\* C36: when a directory listing has failed while errors of earlier skills were
\* collected, the run is over with exit status 1, the only line on the error stream
\* is the listing error, neither the heading of the failure listing nor the line of
\* any collected error was printed, and the step that prints them cannot follow.
C36_CollectedErrorsNotReported ==
    DirFailed /\ Len(allErrors) > 0 =>
        /\ pc = "done"
        /\ exitCode = 1
        /\ Len(stderr) = 1
        /\ FailureHeading \notin Printed
        /\ \A k \in 1..Len(allErrors) : ErrorLine(allErrors[k]) \notin Printed
        /\ ~ENABLED ReportFailure

\* the listing of the second skill failed after two files of the first skill gave
\* errors
C36_Witness ==
    /\ DirFailed
    /\ skillIdx = 2
    /\ Len(reads) = 2
    /\ Len(allErrors) >= 2
    /\ allErrors[1].file # allErrors[Len(allErrors)].file
    /\ exitCode = 1

(***************************************************************************)
(* Properties of the prose between a label and its code block              *)
(***************************************************************************)
\* the prose lines of the example of label line l that stand before its first fence
ProseBeforeBlock(lines, l) ==
    {i \in ProseLines(lines, l + 1, SegmentEnd(lines, l)) :
        \A j \in (l + 1)..(i - 1) : ~IsFenceMarked(lines[j])}

\* C37: the prose lines between a label line and the first fence of its example are
\* each appended to the pending additionalText when read, leaving the explanation
\* as it is, and the example's additionalText is these lines followed by the prose
\* after its code blocks, joined by blank lines.
C37_ProseBeforeBlockKept ==
    Parsed =>
        LET body == Body
            S == LoopStates(body)
            first == FirstLoopLine(body)
        IN  \A l \in LabelLines(body) :
               LET before == ProseBeforeBlock(body, l)
                   after == ProseAfterBlock(body, l)
               IN  before # {} =>
                      /\ rule.examples[ExampleOf(body, l)].additionalText =
                            Some(Join(LinesAt(body, before) \o LinesAt(body, after), "\n\n"))
                      /\ \A i \in before :
                            /\ S[i - first + 2].explanation = S[i - first + 1].explanation
                            /\ S[i - first + 2].additionalText =
                                  Append(S[i - first + 1].additionalText, body[i])

\* an example with a prose line before its code block and two after it: its
\* additionalText has the three in document order, the explanation none of them
C37_Witness ==
    /\ Parsed
    /\ LabelLines(Body) # {}
    /\ Cardinality(ProseBeforeBlock(Body, Min(LabelLines(Body)))) = 1
    /\ Cardinality(ProseAfterBlock(Body, Min(LabelLines(Body)))) = 2
    /\ rule.examples[1].code = "x"
    /\ rule.examples[1].additionalText = Some("Before.\n\nAfter one.\n\nAfter two.")
    /\ rule.explanation = "Why."

(***************************************************************************)
(* Invariants of the line loop                                             *)
(***************************************************************************)
\* C38: before and after every iteration of the line loop inCodeBlock and
\* afterCodeBlock are not both true and codeBlockContent is empty unless
\* inCodeBlock is true; and after an iteration that read a label line
\* afterCodeBlock is false.
C38_LoopFlagsConsistent ==
    Parsed =>
        LET body == Body
            S == LoopStates(body)
        IN  /\ \A k \in 1..Len(S) :
                  /\ ~(S[k].inCodeBlock /\ S[k].afterCodeBlock)
                  /\ ~S[k].inCodeBlock => S[k].codeBlockContent = <<>>
            /\ \A k \in 1..(Len(S) - 1) :
                  Kind(LoopLine(body, k)) = "label" => ~S[k + 1].afterCodeBlock

\* a loop that collected code lines in a block, closed it and then read a label
\* line while afterCodeBlock was true
C38_Witness ==
    /\ Parsed
    /\ HasTitleHeading(Body)
    /\ LET S == LoopStates(Body)
       IN  \E j, k \in 1..(Len(S) - 1) :
              /\ j < k
              /\ S[j].inCodeBlock
              /\ S[j].codeBlockContent # <<>>
              /\ IsDefined(S[j].currentExample)
              /\ S[k].afterCodeBlock
              /\ Kind(LoopLine(Body, k)) = "label"
              /\ ~S[k + 1].afterCodeBlock

====
